---------------------------- MODULE Spec2Model ----------------------------
(***************************************************************************)
(* Recurrence expansion of craftguild/jscalendar.ts, directory recurrence:  *)
(* calendar arithmetic, rule normalisation, period candidates, BY* filters,*)
(* instant materialisation, the rule expansion driver, the occurrence      *)
(* assembler, the multi-item merge and the paginator.                      *)
(*                                                                         *)
(* A LocalDateTime string "YYYY-MM-DDTHH:mm:ss" is modelled as the tuple   *)
(* <<year, month, day, hour, minute, second>> of its zero-padded fields;   *)
(* comparing two such strings is comparing the tuples lexicographically.   *)
(* A DateTime object is a record.  A JavaScript Date is a DateTime record  *)
(* read in UTC.  A JavaScript object is a function from its own keys.      *)
(***************************************************************************)
EXTENDS Integers, Sequences, FiniteSets, TLC

\* undefined, for string-valued and list-valued properties
Undef == <<>>

Has(o, k) == k \in DOMAIN o

Get(o, k) == IF k \in DOMAIN o THEN o[k] ELSE Undef

RECURSIVE SeqToSet(_)
SeqToSet(s) == IF s = <<>> THEN {} ELSE {Head(s)} \cup SeqToSet(Tail(s))

Includes(s, x) == \E i \in 1..Len(s) : s[i] = x

Min(a, b) == IF a < b THEN a ELSE b

(***************************************************************************)
(* JavaScript Date arithmetic, in whole days and seconds of the day.       *)
(***************************************************************************)

\* the day number of day-of-year doy in the year that starts on 1 March of yy
DaysOfShiftedYear(yy, doy) ==
    LET era == yy \div 400
        yoe == yy % 400
    IN  era * 146097 + yoe * 365 + yoe \div 4 - yoe \div 100 + doy - 719468

\* days from 1970-01-01 to the civil date y-m-d (m in 1..12, d any integer)
DaysFromCivil(y, m, d) ==
    DaysOfShiftedYear(IF m <= 2 THEN y - 1 ELSE y,
                      (153 * (IF m > 2 THEN m - 3 ELSE m + 9) + 2) \div 5 + d - 1)

\* the civil date of day-of-year doy in the year that starts on 1 March of y
CivilOfShiftedYear(y, doy) ==
    LET mp == (5 * doy + 2) \div 153
    IN  [year  |-> y + (IF mp < 10 THEN 0 ELSE 1),
         month |-> IF mp < 10 THEN mp + 3 ELSE mp - 9,
         day   |-> doy - (153 * mp + 2) \div 5 + 1]

\* the civil date of day doe of a 400-year era
CivilOfEra(era, doe) ==
    LET yoe == (doe - doe \div 1460 + doe \div 36524 - doe \div 146096) \div 365
    IN  CivilOfShiftedYear(yoe + era * 400, doe - (365 * yoe + yoe \div 4 - yoe \div 100))

\* the civil date of a day number
CivilFromDays(n) == CivilOfEra((n + 719468) \div 146097, (n + 719468) % 146097)

\* Date.UTC(year, monthIndex, day) as a day number; monthIndex and day overflow
\* into the neighbouring months and years as in JavaScript
DateUTC(year, monthIndex, day) ==
    DaysFromCivil(year + monthIndex \div 12, (monthIndex % 12) + 1, 1) + day - 1

\* Date.prototype.getUTCDay: 0 is Sunday
GetUTCDay(n) == (n + 4) % 7

\* a DateTime from the date getters of a Date and a time of day
WithTime(c, hour, minute, second) ==
    [year |-> c.year, month |-> c.month, day |-> c.day,
     hour |-> hour, minute |-> minute, second |-> second]

\* all six UTC getters of the Date that lies seconds after the start of day number days
UTCFields(days, seconds) ==
    WithTime(CivilFromDays(days + seconds \div 86400),
             (seconds % 86400) \div 3600, (seconds % 3600) \div 60, seconds % 60)

\* new Date(Date.UTC(y, mo - 1, d, h, mi, s) + seconds * 1000), all six UTC getters
ShiftSeconds(dt, seconds) ==
    UTCFields(DateUTC(dt.year, dt.month - 1, dt.day),
              dt.hour * 3600 + dt.minute * 60 + dt.second + seconds)

pad(value, length) == value

formatLocalDateTime(dt) ==
    <<pad(dt.year, 4), pad(dt.month, 2), pad(dt.day, 2),
      pad(dt.hour, 2), pad(dt.minute, 2), pad(dt.second, 2)>>

\* the LocalDateTime grammar: six numeric fields
MatchesLocalDateTime(value) == Len(value) = 6

parseLocalDateTime(value) ==
    [year |-> value[1], month |-> value[2], day |-> value[3],
     hour |-> value[4], minute |-> value[5], second |-> value[6]]

\* a < b on strings of LocalDateTime shape
RECURSIVE StrLess(_, _)
StrLess(a, b) ==
    IF a = <<>> THEN b # <<>>
    ELSE IF b = <<>> THEN FALSE
    ELSE IF Head(a) # Head(b) THEN Head(a) < Head(b)
    ELSE StrLess(Tail(a), Tail(b))

StrLeq(a, b) == a = b \/ StrLess(a, b)

addDays(dt, days) ==
    WithTime(CivilFromDays(DateUTC(dt.year, dt.month - 1, dt.day) + days),
             dt.hour, dt.minute, dt.second)

addHours(dt, hours) == ShiftSeconds(dt, hours * 3600)

addSeconds(dt, seconds) == ShiftSeconds(dt, seconds)

addMinutes(dt, minutes) == addSeconds(dt, minutes * 60)

daysInMonth(year, month) == CivilFromDays(DateUTC(year, month, 0)).day

daysInYear(year) == CivilFromDays(DateUTC(year + 1, 0, 0)).day

addMonths(dt, months) ==
    LET total == dt.year * 12 + (dt.month - 1) + months
    IN  [year |-> total \div 12, month |-> (total % 12) + 1,
         day |-> Min(dt.day, daysInMonth(total \div 12, (total % 12) + 1)),
         hour |-> dt.hour, minute |-> dt.minute, second |-> dt.second]

\* the name of the weekday index idx of getUTCDay
DayName(idx) ==
    IF idx = 0 THEN "su" ELSE IF idx = 1 THEN "mo" ELSE IF idx = 2 THEN "tu"
    ELSE IF idx = 3 THEN "we" ELSE IF idx = 4 THEN "th" ELSE IF idx = 5 THEN "fr"
    ELSE "sa"

dayOfWeek(dt) == DayName(GetUTCDay(DateUTC(dt.year, dt.month - 1, dt.day)))

dayOfYear(dt) ==
    (DateUTC(dt.year, dt.month - 1, dt.day) - DateUTC(dt.year, 0, 1)) + 1

WeekOrder == <<"mo", "tu", "we", "th", "fr", "sa", "su">>

IndexOf(s, x) == IF Includes(s, x) THEN (CHOOSE i \in 1..Len(s) : s[i] = x) - 1 ELSE -1

startOfWeek(dt, firstDay) ==
    addDays(dt, -((IndexOf(WeekOrder, dayOfWeek(dt)) - IndexOf(WeekOrder, firstDay) + 7) % 7))

daysBetween(a, b) ==
    DateUTC(b.year, b.month - 1, b.day) - DateUTC(a.year, a.month - 1, a.day)

compareDate(a, b) ==
    IF a.year # b.year THEN a.year - b.year
    ELSE IF a.month # b.month THEN a.month - b.month
    ELSE IF a.day # b.day THEN a.day - b.day
    ELSE 0

YearStart(year) == [year |-> year, month |-> 1, day |-> 1, hour |-> 0, minute |-> 0, second |-> 0]

\* the first day of week 1: the week of yearStart when at least four of its
\* days fall in the year, the week after otherwise
Week1Start(weekStart, yearStart) ==
    IF 7 - daysBetween(weekStart, yearStart) >= 4 THEN weekStart ELSE addDays(weekStart, 7)

RECURSIVE weekNumber(_, _)
RECURSIVE totalWeeksInYear(_, _)
RECURSIVE WeekFrom(_, _, _)
\* the week of dt counted from week1Start
WeekFrom(dt, week1Start, firstDay) ==
    IF compareDate(dt, week1Start) < 0
    THEN totalWeeksInYear(dt.year - 1, firstDay)
    ELSE daysBetween(week1Start, dt) \div 7 + 1

weekNumber(dt, firstDay) ==
    WeekFrom(dt,
             Week1Start(startOfWeek(YearStart(dt.year), firstDay), YearStart(dt.year)),
             firstDay)

totalWeeksInYear(year, firstDay) ==
    weekNumber([year |-> year, month |-> 12, day |-> 31, hour |-> 0, minute |-> 0, second |-> 0],
               firstDay)

addInterval(start, frequency, amount, firstDay) ==
    IF frequency = "yearly"
    THEN [year |-> start.year + amount, month |-> 1, day |-> 1,
          hour |-> 0, minute |-> 0, second |-> 0]
    ELSE IF frequency = "monthly"
    THEN [addMonths(start, amount) EXCEPT !.day = 1, !.hour = 0, !.minute = 0, !.second = 0]
    ELSE IF frequency = "weekly" THEN addDays(startOfWeek(start, firstDay), amount * 7)
    ELSE IF frequency = "daily" THEN addDays(start, amount)
    ELSE IF frequency = "hourly" THEN addHours(start, amount)
    ELSE IF frequency = "minutely" THEN addMinutes(start, amount)
    ELSE addSeconds(start, amount)


(***************************************************************************)
(* Rule normalisation.                                                     *)
(***************************************************************************)

ByKeys == {"bySecond", "byMinute", "byHour", "byDay", "byMonthDay", "byMonth",
           "byYearDay", "byWeekNo", "bySetPosition"}

\* the decimal strings of the month numbers; byMonth holds such strings
MonthStrings == <<"1", "2", "3", "4", "5", "6", "7", "8", "9", "10", "11", "12">>

\* Number.prototype.toString on a month number
MonthToString(month) == MonthStrings[month]

\* parseInt(m, 10) on a byMonth entry; 0 stands for NaN
ParseMonth(m) == IndexOf(MonthStrings, m) + 1

\* !list || list.length === 0
IsEmptyList(list) == list = <<>>

NDay(day) == [type |-> "NDay", day |-> day]

\* the spread copy of the rule: every BY* property is present, undefined when absent
Copied(rule) ==
    [k \in DOMAIN rule \cup ByKeys |-> IF k \in DOMAIN rule THEN rule[k] ELSE Undef]

\* the defaults that depend on the frequency and the property itself only
FillTimesAndWeekday(n, start) ==
    [n EXCEPT
       !["bySecond"] = IF n["frequency"] # "secondly" /\ IsEmptyList(@)
                       THEN <<start.second>> ELSE @,
       !["byMinute"] = IF n["frequency"] # "secondly" /\ n["frequency"] # "minutely"
                          /\ IsEmptyList(@)
                       THEN <<start.minute>> ELSE @,
       !["byHour"]   = IF n["frequency"] # "secondly" /\ n["frequency"] # "minutely"
                          /\ n["frequency"] # "hourly" /\ IsEmptyList(@)
                       THEN <<start.hour>> ELSE @,
       !["byDay"]    = IF n["frequency"] = "weekly" /\ IsEmptyList(@)
                       THEN <<NDay(dayOfWeek(start))>> ELSE @]

\* a faulty monthly default, used to show that idempotence depends on the test
\* for an empty byMonthDay: the day of the start is added on every call
AppendMonthDay(n, start) ==
    IF n["frequency"] = "monthly" /\ IsEmptyList(n["byDay"])
    THEN [n EXCEPT !["byMonthDay"] = Append(@, start.day)]
    ELSE n

FillMonthly(n, start) ==
    IF n["frequency"] = "monthly" /\ IsEmptyList(n["byDay"]) /\ IsEmptyList(n["byMonthDay"])
    THEN [n EXCEPT !["byMonthDay"] = <<start.day>>]
    ELSE n

\* a faulty yearly block that defaults byMonth whenever it is absent, also for
\* rules selected by byWeekNo or by byDay alone
FillMonthAlways(n, start) ==
    LET hasByMonthDay == ~IsEmptyList(n["byMonthDay"])
        hasByWeekNo   == ~IsEmptyList(n["byWeekNo"])
        hasByDay      == ~IsEmptyList(n["byDay"])
    IN  IF n["frequency"] = "yearly" /\ IsEmptyList(n["byYearDay"])
        THEN [n EXCEPT
                !["byMonth"]    = IF IsEmptyList(@) THEN <<MonthToString(start.month)>> ELSE @,
                !["byMonthDay"] = IF ~hasByMonthDay /\ ~hasByWeekNo /\ ~hasByDay
                                  THEN <<start.day>> ELSE @,
                !["byDay"]      = IF hasByWeekNo /\ ~hasByMonthDay /\ ~hasByDay
                                  THEN <<NDay(dayOfWeek(start))>> ELSE @]
        ELSE n

\* the yearly block; the four hasBy* flags are read before any of its assignments
FillYearly(n, start) ==
    LET hasByMonth    == ~IsEmptyList(n["byMonth"])
        hasByWeekNo   == ~IsEmptyList(n["byWeekNo"])
        hasByMonthDay == ~IsEmptyList(n["byMonthDay"])
        hasByDay      == ~IsEmptyList(n["byDay"])
    IN  IF n["frequency"] = "yearly" /\ IsEmptyList(n["byYearDay"])
        THEN [n EXCEPT
                !["byMonth"]    = IF ~hasByMonth /\ ~hasByWeekNo /\ (hasByMonthDay \/ ~hasByDay)
                                  THEN <<MonthToString(start.month)>> ELSE @,
                !["byMonthDay"] = IF ~hasByMonthDay /\ ~hasByWeekNo /\ ~hasByDay
                                  THEN <<start.day>> ELSE @,
                !["byDay"]      = IF hasByWeekNo /\ ~hasByMonthDay /\ ~hasByDay
                                  THEN <<NDay(dayOfWeek(start))>> ELSE @]
        ELSE n

normalizeRule(rule, start) ==
    FillYearly(FillMonthly(FillTimesAndWeekday(Copied(rule), start), start), start)

(***************************************************************************)
(* Period candidates and the BY* filters.                                  *)
(***************************************************************************)

Candidate(year, month, day, valid) ==
    [year |-> year, month |-> month, day |-> day, valid |-> valid]

AsDate(d) == [year |-> d.year, month |-> d.month, day |-> d.day,
              hour |-> 0, minute |-> 0, second |-> 0]

\* the days 1..maxDays of one month, flagged valid when they exist
MonthCandidates(year, month, wantsInvalid) ==
    LET maxDays == IF wantsInvalid THEN 31 ELSE daysInMonth(year, month)
    IN  [day \in 1..maxDays |-> Candidate(year, month, day, day <= daysInMonth(year, month))]

RECURSIVE YearCandidates(_, _, _)
YearCandidates(year, month, wantsInvalid) ==
    IF month > 12 THEN <<>>
    ELSE MonthCandidates(year, month, wantsInvalid) \o YearCandidates(year, month + 1, wantsInvalid)

\* the candidate of an existing date
ValidCandidate(dt) == Candidate(dt.year, dt.month, dt.day, TRUE)

generateDateCandidates(periodStart, rule, firstDay, skip) ==
    LET wantsInvalid == skip # "omit" /\ ~IsEmptyList(rule["byMonthDay"])
    IN  IF rule["frequency"] = "yearly" THEN YearCandidates(periodStart.year, 1, wantsInvalid)
        ELSE IF rule["frequency"] = "monthly"
        THEN MonthCandidates(periodStart.year, periodStart.month, wantsInvalid)
        ELSE IF rule["frequency"] = "weekly"
        THEN [i \in 1..7 |-> ValidCandidate(addDays(periodStart, i - 1))]
        ELSE IF rule["frequency"] \in {"daily", "hourly", "minutely", "secondly"}
        THEN <<ValidCandidate(periodStart)>>
        ELSE <<>>

matchesByMonthDay(date, byMonthDay) ==
    LET dim == daysInMonth(date.year, date.month)
    IN  \E i \in 1..Len(byMonthDay) :
            \/ byMonthDay[i] > 0 /\ date.day = byMonthDay[i]
            \/ byMonthDay[i] < 0 /\ date.day = dim + byMonthDay[i] + 1

matchesByYearDay(date, byYearDay) ==
    LET diy == daysInYear(date.year)
        doy == dayOfYear(AsDate(date))
    IN  \E i \in 1..Len(byYearDay) :
            \/ byYearDay[i] > 0 /\ doy = byYearDay[i]
            \/ byYearDay[i] < 0 /\ doy = diy + byYearDay[i] + 1

matchesByWeekNo(date, byWeekNo, firstDay) ==
    LET week  == weekNumber(AsDate(date), firstDay)
        total == totalWeeksInYear(date.year, firstDay)
    IN  \E i \in 1..Len(byWeekNo) :
            \/ byWeekNo[i] > 0 /\ week = byWeekNo[i]
            \/ byWeekNo[i] < 0 /\ week = total + byWeekNo[i] + 1

RECURSIVE YearDates(_, _)
YearDates(year, month) ==
    IF month > 12 THEN <<>>
    ELSE [day \in 1..daysInMonth(year, month) |-> AsDate([year |-> year, month |-> month, day |-> day])]
         \o YearDates(year, month + 1)

listNthPeriodDates(date, frequency, periodStart, firstDay) ==
    IF frequency = "yearly" THEN YearDates(date.year, 1)
    ELSE IF frequency = "monthly"
    THEN [day \in 1..daysInMonth(date.year, date.month) |->
             AsDate([year |-> date.year, month |-> date.month, day |-> day])]
    ELSE [i \in 1..7 |-> AsDate(addDays(periodStart, i - 1))]

\* the date is the nth of matches, counted from the end when nth is negative
IsNthOf(matches, nth, date) ==
    LET index == IF nth > 0 THEN nth - 1 ELSE Len(matches) + nth
    IN  /\ index >= 0 /\ index < Len(matches)
        /\ matches[index + 1].year = date.year
        /\ matches[index + 1].month = date.month
        /\ matches[index + 1].day = date.day

matchesByDay(date, byDay, frequency, periodStart, firstDay) ==
    \E i \in 1..Len(byDay) :
        IF ~Has(byDay[i], "nthOfPeriod") THEN byDay[i]["day"] = dayOfWeek(AsDate(date))
        ELSE /\ frequency \in {"monthly", "yearly"}
             /\ IsNthOf(SelectSeq(listNthPeriodDates(date, frequency, periodStart, firstDay),
                                  LAMBDA d : dayOfWeek(d) = byDay[i]["day"]),
                        byDay[i]["nthOfPeriod"], date)

DateKey(c) == <<pad(c.year, 4), pad(c.month, 2), pad(c.day, 2)>>

\* every candidate kept, whatever dates came before it
KeepEvery(candidates, seen) == candidates

\* the Map keyed by date: the first candidate of each date, in insertion order
RECURSIVE DedupByDate(_, _)
DedupByDate(candidates, seen) ==
    IF candidates = <<>> THEN <<>>
    ELSE IF DateKey(Head(candidates)) \in seen THEN DedupByDate(Tail(candidates), seen)
    ELSE <<Head(candidates)>> \o DedupByDate(Tail(candidates), seen \cup {DateKey(Head(candidates))})

\* where an invalid month day goes: the first of the next month, the last of its
\* own month, or nowhere
Moved(c, skip) ==
    IF c.valid THEN <<c>>
    ELSE IF skip = "forward"
    THEN <<ValidCandidate([addMonths([year |-> c.year, month |-> c.month, day |-> 1,
                                      hour |-> 0, minute |-> 0, second |-> 0], 1)
                           EXCEPT !.day = 1])>>
    ELSE IF skip = "backward"
    THEN <<Candidate(c.year, c.month, daysInMonth(c.year, c.month), TRUE)>>
    ELSE <<>>

RECURSIVE ShiftInvalid(_, _)
ShiftInvalid(candidates, skip) ==
    IF candidates = <<>> THEN <<>>
    ELSE Moved(Head(candidates), skip) \o ShiftInvalid(Tail(candidates), skip)

adjustInvalidMonthDays(candidates, skip) == DedupByDate(ShiftInvalid(candidates, skip), {})

NonZero(list) == SelectSeq(list, LAMBDA v : v # 0)

\* the month numbers of byMonth, without the entries that do not parse
MonthNumbers(byMonth) == {ParseMonth(byMonth[i]) : i \in 1..Len(byMonth)} \ {0}

\* the test of the filter of one BY* property on a candidate
MatchesBy(d, rule, key, periodStart, firstDay) ==
    IF key = "byMonth" THEN d.month \in MonthNumbers(rule["byMonth"])
    ELSE IF key = "byWeekNo"
    THEN d.valid /\ matchesByWeekNo(d, NonZero(rule["byWeekNo"]), firstDay)
    ELSE IF key = "byYearDay"
    THEN d.valid /\ matchesByYearDay(d, NonZero(rule["byYearDay"]))
    ELSE IF key = "byMonthDay"
    THEN matchesByMonthDay(d, NonZero(rule["byMonthDay"]))
    ELSE matchesByDay(d, rule["byDay"], rule["frequency"], periodStart, firstDay)

\* the filter of one BY* property: it runs when the rule has the property
KeepMatching(result, rule, key, periodStart, firstDay) ==
    IF ~IsEmptyList(rule[key])
    THEN SelectSeq(result, LAMBDA d : MatchesBy(d, rule, key, periodStart, firstDay))
    ELSE result

\* the last step: invalid month days are moved by the skip policy or dropped
SettleInvalid(result, rule, skip) ==
    IF skip # "omit" /\ ~IsEmptyList(rule["byMonthDay"])
    THEN adjustInvalidMonthDays(result, skip)
    ELSE SelectSeq(result, LAMBDA d : d.valid)

filterDateCandidates(candidates, rule, periodStart, firstDay, skip) ==
    SettleInvalid(
        KeepMatching(
            KeepMatching(
                KeepMatching(
                    KeepMatching(
                        KeepMatching(candidates, rule, "byMonth", periodStart, firstDay),
                        rule, "byWeekNo", periodStart, firstDay),
                    rule, "byYearDay", periodStart, firstDay),
                rule, "byMonthDay", periodStart, firstDay),
            rule, "byDay", periodStart, firstDay),
        rule, skip)

(***************************************************************************)
(* Instant materialisation and BYSETPOS.                                   *)
(***************************************************************************)

\* one date crossed with byHour x byMinute x bySecond, hours outermost
CrossTimes(date, hours, minutes, seconds) ==
    [n \in 1..(Len(hours) * Len(minutes) * Len(seconds)) |->
        LET h == (n - 1) \div (Len(minutes) * Len(seconds))
            m == ((n - 1) \div Len(seconds)) % Len(minutes)
            x == (n - 1) % Len(seconds)
        IN  formatLocalDateTime([year |-> date.year, month |-> date.month, day |-> date.day,
                                 hour |-> hours[h + 1], minute |-> minutes[m + 1],
                                 second |-> seconds[x + 1]])]

\* the instants of all dates, date by date: times instants for each date
CrossDates(dates, hours, minutes, seconds, times) ==
    [n \in 1..(Len(dates) * times) |->
        CrossTimes(dates[(n - 1) \div times + 1], hours, minutes, seconds)[((n - 1) % times) + 1]]

generateDateTimes(periodStart, rule, firstDay, skip) ==
    LET filteredDates == filterDateCandidates(
                             generateDateCandidates(periodStart, rule, firstDay, skip),
                             rule, periodStart, firstDay, skip)
        hours   == IF ~IsEmptyList(rule["byHour"]) THEN rule["byHour"] ELSE <<periodStart.hour>>
        minutes == IF ~IsEmptyList(rule["byMinute"]) THEN rule["byMinute"] ELSE <<periodStart.minute>>
        seconds == IF ~IsEmptyList(rule["bySecond"]) THEN rule["bySecond"] ELSE <<periodStart.second>>
    IN  CrossDates(filteredDates, hours, minutes, seconds,
                   Len(hours) * Len(minutes) * Len(seconds))

\* Array.prototype.sort on strings: ascending, stable.  The place of an element
\* is one more than the number of elements the sort puts before it: the smaller
\* ones, and the equal ones that precede it
PlacesOf(s) ==
    [i \in 1..Len(s) |->
        Cardinality({j \in 1..Len(s) : StrLess(s[j], s[i]) \/ (s[j] = s[i] /\ j < i)}) + 1]

Placed(s, places) == [k \in 1..Len(s) |-> s[CHOOSE i \in 1..Len(s) : places[i] = k]]

SortStrings(s) == Placed(s, PlacesOf(s))

\* positions counted from the start whatever their sign
RECURSIVE PickFromStart(_, _)
PickFromStart(sorted, setPos) ==
    IF setPos = <<>> THEN <<>>
    ELSE LET pos   == Head(setPos)
             index == IF pos > 0 THEN pos - 1 ELSE (0 - pos) - 1
         IN  (IF index >= 0 /\ index < Len(sorted) THEN <<sorted[index + 1]>> ELSE <<>>)
             \o PickFromStart(sorted, Tail(setPos))

RECURSIVE PickPositions(_, _)
PickPositions(sorted, setPos) ==
    IF setPos = <<>> THEN <<>>
    ELSE LET pos   == Head(setPos)
             index == IF pos > 0 THEN pos - 1 ELSE Len(sorted) + pos
         IN  (IF index >= 0 /\ index < Len(sorted) THEN <<sorted[index + 1]>> ELSE <<>>)
             \o PickPositions(sorted, Tail(setPos))

\* the picked instants put back in ascending order
PickAscending(candidates, setPos) ==
    SortStrings(PickPositions(SortStrings(candidates), setPos))

applyBySetPos(candidates, setPos) == PickPositions(SortStrings(candidates), setPos)

(***************************************************************************)
(* The rule expansion driver.                                              *)
(***************************************************************************)

\* periods one call of expandRule may visit in the model
MaxPeriods == 12

NoError == "none"

\* value >= from && value <= to on strings
isInRange(value, from, to) == StrLeq(from, value) /\ StrLeq(value, to)

\* generated < count, with count = normalized.count ?? Infinity
BelowCount(generated, normalized) ==
    ~Has(normalized, "count") \/ generated < normalized["count"]

\* generated > count
AboveCount(generated, normalized) ==
    Has(normalized, "count") /\ generated > normalized["count"]

\* until && dt > until
AfterUntil(dt, normalized) ==
    Has(normalized, "until") /\ StrLess(normalized["until"], dt)

\* the for-of loop over the instants of one period; returned is the early return
RECURSIVE PeriodLoop(_, _, _, _, _, _)
PeriodLoop(filtered, results, generated, normalized, fromLocal, toLocal) ==
    IF filtered = <<>>
    THEN [results |-> results, generated |-> generated, returned |-> FALSE]
    ELSE LET dt == Head(filtered)
             g  == generated + 1
         IN  IF AboveCount(g, normalized)
             THEN [results |-> results, generated |-> g, returned |-> FALSE]
             ELSE IF AfterUntil(dt, normalized)
             THEN [results |-> results, generated |-> g, returned |-> TRUE]
             ELSE PeriodLoop(Tail(filtered),
                             IF isInRange(dt, fromLocal, toLocal) THEN Append(results, dt) ELSE results,
                             g, normalized, fromLocal, toLocal)

\* bySetPosition picks from the sorted instants when the rule has it
Positioned(candidates, setPos) ==
    IF ~IsEmptyList(setPos) THEN applyBySetPos(candidates, setPos) ELSE candidates

\* the instants of the period at cursor, in the order the driver handles them
PeriodInstants(cursor, normalized, firstDay, skip) ==
    Positioned(SortStrings(generateDateTimes(cursor, normalized, firstDay, skip)),
               normalized["bySetPosition"])

RECURSIVE RuleLoop(_, _, _, _, _, _, _)
RECURSIVE AfterPeriod(_, _, _, _, _, _)
\* the rest of one iteration of the while loop, after the instants of the period
AfterPeriod(period, cursor, normalized, fromLocal, toLocal, steps) ==
    IF period.returned
    THEN [results |-> period.results, diverged |-> FALSE]
    ELSE IF AfterUntil(formatLocalDateTime(cursor), normalized)
    THEN [results |-> period.results, diverged |-> FALSE]
    ELSE IF ~BelowCount(period.generated, normalized)
    THEN [results |-> period.results, diverged |-> FALSE]
    ELSE IF compareDate(cursor, parseLocalDateTime(toLocal)) > 0
    THEN [results |-> period.results, diverged |-> FALSE]
    ELSE RuleLoop(addInterval(cursor, normalized["frequency"],
                              IF Has(normalized, "interval") THEN normalized["interval"] ELSE 1,
                              IF Has(normalized, "firstDayOfWeek")
                              THEN normalized["firstDayOfWeek"] ELSE "mo"),
                  period.results, period.generated, normalized,
                  fromLocal, toLocal, steps + 1)

\* the while loop; diverged is set when the model's period budget runs out
RuleLoop(cursor, results, generated, normalized, fromLocal, toLocal, steps) ==
    IF ~BelowCount(generated, normalized)
    THEN [results |-> results, diverged |-> FALSE]
    ELSE IF steps >= MaxPeriods
    THEN [results |-> results, diverged |-> TRUE]
    ELSE AfterPeriod(
             PeriodLoop(PeriodInstants(cursor, normalized,
                                       IF Has(normalized, "firstDayOfWeek")
                                       THEN normalized["firstDayOfWeek"] ELSE "mo",
                                       IF Has(normalized, "skip") THEN normalized["skip"] ELSE "omit"),
                        results, generated, normalized, fromLocal, toLocal),
             cursor, normalized, fromLocal, toLocal, steps)

\* what expandRule returns when the loop ends
Returned(loop) == [error |-> NoError, results |-> loop.results, diverged |-> loop.diverged]

\* expandRule; error names the exception it throws, if any
expandRule(anchor, rule, fromLocal, toLocal, includeAnchor, timeZone, fromDate, toDate) ==
    IF Has(rule, "rscale") /\ rule["rscale"] # "gregorian"
    THEN [error |-> "Unsupported rscale", results |-> <<>>, diverged |-> FALSE]
    ELSE IF ~MatchesLocalDateTime(anchor)
    THEN [error |-> "Invalid LocalDateTime", results |-> <<>>, diverged |-> FALSE]
    ELSE Returned(RuleLoop(parseLocalDateTime(anchor), <<>>, 0,
                           normalizeRule(rule, parseLocalDateTime(anchor)),
                           fromLocal, toLocal, 0))

(***************************************************************************)
(* Time zones.  A zone is modelled by its fixed offset from UTC in hours;  *)
(* the zones of the model have no daylight-saving transitions.             *)
(***************************************************************************)

\* event.timeZone ?? null
Null == "null"

\* the offset date-fns-tz gives the zone
ZoneOffsetHours(timeZone) ==
    IF timeZone = "Asia/Tokyo" THEN 9 ELSE 0

\* the offset of the zone the process runs in, used by date-fns format
SystemOffsetHours == 0

localDateTimeFromDate(value) == formatLocalDateTime(addHours(value, SystemOffsetHours))

dateTimeInTimeZone(value, timeZone) ==
    formatLocalDateTime(addHours(value, ZoneOffsetHours(timeZone)))

\* the UTC Date of a LocalDateTime of the zone; the caller checks the grammar
localDateTimeToUtcDate(value, timeZone) ==
    addHours(parseLocalDateTime(value), -ZoneOffsetHours(timeZone))

\* a Date as a number to compare: the tuple of its UTC fields
DateValue(date) == formatLocalDateTime(date)

\* utc >= from && utc <= to on Dates
DateBetween(utc, from, to) == StrLeq(DateValue(from), utc) /\ StrLeq(utc, DateValue(to))

isInRangeWithZone(value, from, to, timeZone) ==
    DateBetween(DateValue(localDateTimeToUtcDate(value, timeZone)), from, to)

\* 0 when equal, -1 when a is less, 1 otherwise
Compared(a, b) == IF a = b THEN 0 ELSE IF StrLess(a, b) THEN -1 ELSE 1

compareLocal(a, b, timeZone) ==
    IF timeZone = Null
    THEN Compared(a, b)
    ELSE Compared(DateValue(localDateTimeToUtcDate(a, timeZone)),
                  DateValue(localDateTimeToUtcDate(b, timeZone)))

(***************************************************************************)
(* Patches.  A patch is the list of its entries in key order; an entry is  *)
(* [pointer, slash, null, value]: the segments of the pointer, whether the *)
(* key is written with a leading "/", whether the value is null.           *)
(***************************************************************************)

\* the JSON values a patch of the model sets: a string, a boolean, a LocalDateTime
JsonString(text)  == [kind |-> "string", text |-> text, flag |-> FALSE, local |-> <<>>]
JsonBoolean(flag) == [kind |-> "boolean", text |-> "", flag |-> flag, local |-> <<>>]
JsonLocal(local)  == [kind |-> "local", text |-> "", flag |-> FALSE, local |-> local]

ValueOf(json) ==
    IF json.kind = "string" THEN json.text
    ELSE IF json.kind = "boolean" THEN json.flag
    ELSE json.local

PatchEntry(segments, slash, value) ==
    [pointer |-> segments, slash |-> slash, null |-> FALSE, value |-> value]

IsStrictPrefix(p, q) == Len(p) < Len(q) /\ SubSeq(q, 1, Len(p)) = p

validatePrefixConflicts(patch) ==
    \E i, j \in 1..Len(patch) : IsStrictPrefix(patch[i].pointer, patch[j].pointer)

\* the value update or delete at a top-level segment
applyValueAtSegment(current, segment, entry) ==
    IF entry.null
    THEN [k \in DOMAIN current \ {segment} |-> current[k]]
    ELSE [k \in DOMAIN current \cup {segment} |-> IF k = segment THEN ValueOf(entry.value) ELSE current[k]]

RECURSIVE applyPatchEntries(_, _)
applyPatchEntries(target, patch) ==
    IF patch = <<>> THEN target
    ELSE applyPatchEntries(applyValueAtSegment(target, Head(patch).pointer[1], Head(patch)),
                           Tail(patch))

\* a pointer of several segments walks into a property; the objects of the
\* model hold no nested records, so the walk fails
WalksIntoMissingPath(patch) == \E i \in 1..Len(patch) : Len(patch[i].pointer) # 1

\* a faulty applyPatch, used to show that the isolation of an override depends
\* on the copy: it works on the input itself
PatchInPlace(input, patch) ==
    IF validatePrefixConflicts(patch) \/ WalksIntoMissingPath(patch)
    THEN [error |-> "PatchError", value |-> input, input |-> input]
    ELSE [error |-> NoError, value |-> applyPatchEntries(input, patch),
          input |-> applyPatchEntries(input, patch)]

\* applyPatch: value is the patched deep copy it returns, input the object it
\* was given as the call leaves it
applyPatch(input, patch) ==
    IF validatePrefixConflicts(patch) \/ WalksIntoMissingPath(patch)
    THEN [error |-> "PatchError", value |-> input, input |-> input]
    ELSE [error |-> NoError, value |-> applyPatchEntries(input, patch), input |-> input]

patchHasKey(patch, key) == \E i \in 1..Len(patch) : patch[i].pointer = <<key>>

RecurrenceProperties == {"recurrenceRules", "excludedRecurrenceRules", "recurrenceOverrides"}

\* the object with every property it has
KeepProperties(object) == object

stripRecurrenceProperties(object) ==
    [k \in DOMAIN object \ RecurrenceProperties |-> object[k]]

isExcludedInstance(object) == Has(object, "excluded") /\ object["excluded"] = TRUE

\* { ...object, key: value }
WithProperty(object, key, value) ==
    [k \in DOMAIN object \cup {key} |-> IF k = key THEN value ELSE object[k]]

\* a faulty shift that moves start, or due, to the recurrence id whatever the
\* patch sets
ShiftAlways(patched, recurrenceId, patch) ==
    IF patched["@type"] = "Event" THEN WithProperty(patched, "start", recurrenceId)
    ELSE IF patched["@type"] = "Task"
    THEN IF Get(patched, "start") # Undef THEN WithProperty(patched, "start", recurrenceId)
         ELSE IF Get(patched, "due") # Undef THEN WithProperty(patched, "due", recurrenceId)
         ELSE patched
    ELSE patched

\* the patched object with its start, or its due, moved to the recurrence id,
\* unless the patch sets that property itself
Shifted(patched, recurrenceId, patch) ==
    IF patched["@type"] = "Event"
    THEN IF patchHasKey(patch, "start") THEN patched
         ELSE WithProperty(patched, "start", recurrenceId)
    ELSE IF patched["@type"] = "Task"
    THEN IF Get(patched, "start") # Undef
         THEN IF patchHasKey(patch, "start") THEN patched
              ELSE WithProperty(patched, "start", recurrenceId)
         ELSE IF Get(patched, "due") # Undef
         THEN IF patchHasKey(patch, "due") THEN patched
              ELSE WithProperty(patched, "due", recurrenceId)
         ELSE patched
    ELSE patched

\* if (recurrenceIdTimeZone) instance.recurrenceIdTimeZone = recurrenceIdTimeZone
WithZone(instance, recurrenceIdTimeZone) ==
    IF recurrenceIdTimeZone # Null
    THEN WithProperty(instance, "recurrenceIdTimeZone", recurrenceIdTimeZone)
    ELSE instance

\* buildInstance after applyPatch has returned or thrown
InstanceOf(applied, base, recurrenceId, recurrenceIdTimeZone, patch) ==
    IF applied.error # NoError
    THEN [error |-> applied.error, null |-> TRUE, value |-> base, base |-> applied.input]
    ELSE IF isExcludedInstance(applied.value)
    THEN [error |-> NoError, null |-> TRUE, value |-> base, base |-> applied.input]
    ELSE [error |-> NoError, null |-> FALSE,
          value |-> WithZone(WithProperty(stripRecurrenceProperties(
                                              Shifted(applied.value, recurrenceId, patch)),
                                          "recurrenceId", recurrenceId),
                             recurrenceIdTimeZone),
          base |-> applied.input]

\* buildInstance; null is the excluded instance, error the exception of
\* applyPatch, base the base object as the call leaves it
buildInstance(base, recurrenceId, recurrenceIdTimeZone, patch) ==
    InstanceOf(IF patch # <<>> THEN applyPatch(base, patch)
               ELSE [error |-> NoError, value |-> base, input |-> base],
               base, recurrenceId, recurrenceIdTimeZone, patch)

(***************************************************************************)
(* expandObject.  A generator is modelled by the list of what it yields;   *)
(* an exception ends the expansion, error names it.  recurrenceOverrides   *)
(* is the list of [key, patch] in the key order of the object.             *)
(***************************************************************************)

Override(key, patch) == [key |-> key, patch |-> patch]

\* overrides[dt], Undef when the object has no such key
OverridePatch(overrides, dt) ==
    LET hits == SelectSeq(overrides, LAMBDA o : o.key = dt)
    IN  IF hits = <<>> THEN Undef ELSE hits[1].patch

\* a faulty range test, used to show that the range properties depend on it:
\* every key passes
AlwaysInRange(dt, fromLocal, toLocal, fromDate, toDate, timeZone) == TRUE

\* the range test at a yield: by instant with a zone, by string without
InRangeAtYield(dt, fromLocal, toLocal, fromDate, toDate, timeZone) ==
    IF timeZone # Null
    THEN isInRangeWithZone(dt, fromDate, toDate, timeZone)
    ELSE isInRange(dt, fromLocal, toLocal)

\* a faulty lookup, used to show that the exclusion properties depend on it:
\* no key is found in the excluded set
NeverExcluded(excluded, dt) == FALSE

\* excluded.has(dt)
IsExcludedKey(excluded, dt) == dt \in excluded

\* what the loop body yields for a built instance
Yielded(built, inRange) ==
    IF built.error # NoError THEN [error |-> built.error, values |-> <<>>, base |-> built.base]
    ELSE IF built.null THEN [error |-> NoError, values |-> <<>>, base |-> built.base]
    ELSE IF inRange THEN [error |-> NoError, values |-> <<built.value>>, base |-> built.base]
    ELSE [error |-> NoError, values |-> <<>>, base |-> built.base]

\* the body of the loops that build and yield one instance
\* isInRangeWithZone throws on a key that is not a LocalDateTime; it is called
\* once the instance is built and is not null
ThrowsAtYield(built, dt, timeZone) ==
    built.error = NoError /\ ~built.null /\ timeZone # Null /\ ~MatchesLocalDateTime(dt)

YieldInstance(base, dt, timeZone, patch, fromLocal, toLocal, fromDate, toDate) ==
    IF ThrowsAtYield(buildInstance(base, dt, timeZone, patch), dt, timeZone)
    THEN [error |-> "Invalid LocalDateTime", values |-> <<>>,
          base |-> buildInstance(base, dt, timeZone, patch).base]
    ELSE Yielded(buildInstance(base, dt, timeZone, patch),
                 InRangeAtYield(dt, fromLocal, toLocal, fromDate, toDate, timeZone))

\* one iteration followed by the later ones; an exception ends the loop
Then(first, rest) ==
    IF first.error # NoError THEN first
    ELSE IF rest.error # NoError THEN rest
    ELSE [error |-> NoError, values |-> first.values \o rest.values, base |-> rest.base]

\* for (const key of overrideKeys) of an object without rules; every
\* iteration works on the base object as the earlier ones left it
RECURSIVE YieldOverrides(_, _, _, _, _, _, _, _)
RECURSIVE OverridesAfter(_, _, _, _, _, _, _, _)
OverridesAfter(first, keys, overrides, timeZone, fromLocal, toLocal, fromDate, toDate) ==
    Then(first, YieldOverrides(first.base, keys, overrides, timeZone,
                               fromLocal, toLocal, fromDate, toDate))

YieldOverrides(base, keys, overrides, timeZone, fromLocal, toLocal, fromDate, toDate) ==
    IF keys = <<>> THEN [error |-> NoError, values |-> <<>>, base |-> base]
    ELSE OverridesAfter(YieldInstance(base, Head(keys), timeZone,
                                      OverridePatch(overrides, Head(keys)),
                                      fromLocal, toLocal, fromDate, toDate),
                        Tail(keys), overrides, timeZone, fromLocal, toLocal, fromDate, toDate)

\* for (const dt of sorted) of an object with rules
RECURSIVE YieldSorted(_, _, _, _, _, _, _, _, _)
RECURSIVE SortedAfter(_, _, _, _, _, _, _, _, _)
SortedAfter(first, sorted, excluded, overrides, timeZone, fromLocal, toLocal, fromDate, toDate) ==
    Then(first, YieldSorted(first.base, sorted, excluded, overrides, timeZone,
                            fromLocal, toLocal, fromDate, toDate))

YieldSorted(base, sorted, excluded, overrides, timeZone, fromLocal, toLocal, fromDate, toDate) ==
    IF sorted = <<>> THEN [error |-> NoError, values |-> <<>>, base |-> base]
    ELSE SortedAfter(IF IsExcludedKey(excluded, Head(sorted))
                     THEN [error |-> NoError, values |-> <<>>, base |-> base]
                     ELSE YieldInstance(base, Head(sorted), timeZone,
                                        OverridePatch(overrides, Head(sorted)),
                                        fromLocal, toLocal, fromDate, toDate),
                     Tail(sorted), excluded, overrides, timeZone,
                     fromLocal, toLocal, fromDate, toDate)

\* the expansions of the rules of a list, one record of expandRule per rule
ExpandRules(anchor, rules, fromLocal, toLocal, timeZone, fromDate, toDate) ==
    [i \in 1..Len(rules) |->
        expandRule(anchor, rules[i], fromLocal, toLocal, TRUE, timeZone, fromDate, toDate)]

RECURSIVE ConcatResults(_)
ConcatResults(expansions) ==
    IF expansions = <<>> THEN <<>>
    ELSE Head(expansions).results \o ConcatResults(Tail(expansions))

FirstError(expansions) ==
    LET failed == SelectSeq(expansions, LAMBDA e : e.error # NoError)
    IN  IF failed = <<>> THEN NoError ELSE failed[1].error

\* occurrences.push(x) unless occurrences.includes(x), for each x of keys
RECURSIVE PushMissing(_, _)
PushMissing(occurrences, keys) ==
    IF keys = <<>> THEN occurrences
    ELSE PushMissing(IF Includes(occurrences, Head(keys)) THEN occurrences
                     ELSE Append(occurrences, Head(keys)),
                     Tail(keys))

\* Array.from(new Set(occurrences)): first occurrences, in order
RECURSIVE Unique(_)
Unique(s) ==
    IF s = <<>> THEN <<>>
    ELSE LET init == Unique(SubSeq(s, 1, Len(s) - 1))
         IN  IF Includes(init, s[Len(s)]) THEN init ELSE Append(init, s[Len(s)])

\* Array.prototype.sort with compareLocal: a stable insertion
RECURSIVE InsertLocal(_, _, _)
InsertLocal(sorted, x, timeZone) ==
    IF sorted = <<>> THEN <<x>>
    ELSE IF compareLocal(x, sorted[Len(sorted)], timeZone) >= 0 THEN Append(sorted, x)
    ELSE Append(InsertLocal(SubSeq(sorted, 1, Len(sorted) - 1), x, timeZone), sorted[Len(sorted)])

RECURSIVE SortLocal(_, _)
SortLocal(s, timeZone) ==
    IF s = <<>> THEN <<>>
    ELSE InsertLocal(SortLocal(SubSeq(s, 1, Len(s) - 1), timeZone), s[Len(s)], timeZone)

\* with a zone compareLocal parses both strings and throws on one that is not a
\* LocalDateTime; the list sorted holds the anchor besides the override keys,
\* so the comparator sees every key
SortThrows(keys, timeZone) ==
    timeZone # Null /\ \E i \in 1..Len(keys) : ~MatchesLocalDateTime(keys[i])

\* if (rules[0]?.count && sorted.length > rules[0].count) sorted = sorted.slice(0, count)
SliceToFirstCount(sorted, rules) ==
    IF Has(rules[1], "count") /\ rules[1]["count"] # 0 /\ Len(sorted) > rules[1]["count"]
    THEN SubSeq(sorted, 1, rules[1]["count"])
    ELSE sorted

\* Object.keys(overrides)
OverrideKeys(overrides) == [i \in 1..Len(overrides) |-> overrides[i].key]

\* the branch of an object without rules: the object itself, then its overrides
WithoutRules(own, rest) ==
    IF rest.error # NoError
    THEN [error |-> rest.error, values |-> <<>>, diverged |-> FALSE, base |-> rest.base]
    ELSE [error |-> NoError, values |-> own \o rest.values, diverged |-> FALSE,
          base |-> rest.base]

\* what the final loop yields, unless it threw
Finished(yielded, diverged) ==
    [error |-> yielded.error,
     values |-> IF yielded.error = NoError THEN yielded.values ELSE <<>>,
     diverged |-> diverged,
     base |-> yielded.base]

\* the branch of an object with rules, from the expansions of its rules and of
\* its excluded rules
WithRules(base, anchor, rules, overrides, recurrenceIdTimeZone, fromLocal, toLocal, fromDate, toDate, included, removed) ==
    IF FirstError(included) # NoError
    THEN [error |-> FirstError(included), values |-> <<>>, diverged |-> FALSE, base |-> base]
    ELSE IF FirstError(removed) # NoError
    THEN [error |-> FirstError(removed), values |-> <<>>, diverged |-> FALSE, base |-> base]
    ELSE IF SortThrows(OverrideKeys(overrides), recurrenceIdTimeZone)
    THEN [error |-> "Invalid LocalDateTime", values |-> <<>>, diverged |-> FALSE, base |-> base]
    ELSE Finished(
             YieldSorted(base,
                         SliceToFirstCount(
                             SortLocal(Unique(PushMissing(PushMissing(ConcatResults(included),
                                                                      <<anchor>>),
                                                          OverrideKeys(overrides))),
                                       recurrenceIdTimeZone),
                             rules),
                         SeqToSet(ConcatResults(removed)), overrides, recurrenceIdTimeZone,
                         fromLocal, toLocal, fromDate, toDate),
             (\E i \in 1..Len(included) : included[i].diverged)
                 \/ (\E j \in 1..Len(removed) : removed[j].diverged))

\* expandObject once fromLocal, toLocal, fromDate and toDate are computed
ExpandWithin(base, anchor, rules, excludedRules, overrides, recurrenceIdTimeZone, fromLocal, toLocal, fromDate, toDate) ==
    IF rules = <<>> /\ recurrenceIdTimeZone # Null /\ ~MatchesLocalDateTime(anchor)
    THEN [error |-> "Invalid LocalDateTime", values |-> <<>>, diverged |-> FALSE, base |-> base]
    ELSE IF rules = <<>>
    THEN WithoutRules(IF InRangeAtYield(anchor, fromLocal, toLocal, fromDate, toDate,
                                        recurrenceIdTimeZone)
                      THEN <<base>> ELSE <<>>,
                      YieldOverrides(base, OverrideKeys(overrides), overrides,
                                     recurrenceIdTimeZone, fromLocal, toLocal, fromDate, toDate))
    ELSE WithRules(base, anchor, rules, overrides, recurrenceIdTimeZone,
                   fromLocal, toLocal, fromDate, toDate,
                   ExpandRules(anchor, rules, fromLocal, toLocal,
                               recurrenceIdTimeZone, fromDate, toDate),
                   ExpandRules(anchor, excludedRules, fromLocal, toLocal,
                               recurrenceIdTimeZone, fromDate, toDate))

expandObject(base, range, anchor, rules, excludedRules, overrides, recurrenceIdTimeZone) ==
    ExpandWithin(base, anchor, rules, excludedRules, overrides, recurrenceIdTimeZone,
                 IF recurrenceIdTimeZone # Null
                 THEN dateTimeInTimeZone(range.from, recurrenceIdTimeZone)
                 ELSE localDateTimeFromDate(range.from),
                 IF recurrenceIdTimeZone # Null
                 THEN dateTimeInTimeZone(range.to, recurrenceIdTimeZone)
                 ELSE localDateTimeFromDate(range.to),
                 range.from, range.to)

expandEvent(event, range) ==
    expandObject(event, range, event["start"], Get(event, "recurrenceRules"),
                 Get(event, "excludedRecurrenceRules"), Get(event, "recurrenceOverrides"),
                 IF Has(event, "timeZone") THEN event["timeZone"] ELSE Null)

expandTask(task, range) ==
    LET anchor == IF Get(task, "start") # Undef THEN task["start"] ELSE Get(task, "due")
    IN  IF anchor = Undef
        THEN [error |-> NoError, values |-> <<>>, diverged |-> FALSE, base |-> task]
        ELSE expandObject(task, range, anchor, Get(task, "recurrenceRules"),
                          Get(task, "excludedRecurrenceRules"), Get(task, "recurrenceOverrides"),
                          IF Has(task, "timeZone") THEN task["timeZone"] ELSE Null)

occurrenceKey(value) ==
    IF Get(value, "recurrenceId") # Undef THEN value["recurrenceId"]
    ELSE IF value["@type"] = "Event" THEN Get(value, "start")
    ELSE IF value["@type"] = "Task"
    THEN IF Get(value, "start") # Undef THEN value["start"] ELSE Get(value, "due")
    ELSE Undef

\* what one item contributes to the occurrences of expandRecurrence
ExpandItem(item, range) ==
    IF item["@type"] = "Event" THEN expandEvent(item, range)
    ELSE IF item["@type"] = "Task" THEN expandTask(item, range)
    ELSE [error |-> NoError, values |-> <<item>>, diverged |-> FALSE, base |-> item]

\* a faulty comparator, used to show that the order properties depend on it:
\* it compares the push indexes only
CompareByIndex(a, b) == a.index - b.index

\* the comparator of occurrences.sort
CompareOccurrences(a, b) ==
    IF a.key # Undef /\ b.key # Undef
    THEN IF a.key = b.key THEN 0 ELSE IF StrLess(a.key, b.key) THEN -1 ELSE 1
    ELSE IF a.key # Undef THEN -1
    ELSE IF b.key # Undef THEN 1
    ELSE a.index - b.index

RECURSIVE InsertOccurrence(_, _)
InsertOccurrence(sorted, x) ==
    IF sorted = <<>> THEN <<x>>
    ELSE IF CompareOccurrences(x, sorted[Len(sorted)]) >= 0 THEN Append(sorted, x)
    ELSE Append(InsertOccurrence(SubSeq(sorted, 1, Len(sorted) - 1), x), sorted[Len(sorted)])

RECURSIVE SortOccurrences(_)
SortOccurrences(s) ==
    IF s = <<>> THEN <<>>
    ELSE InsertOccurrence(SortOccurrences(SubSeq(s, 1, Len(s) - 1)), s[Len(s)])

\* the values pushed for the items, in push order
RECURSIVE CollectValues(_)
CollectValues(expansions) ==
    IF expansions = <<>> THEN <<>>
    ELSE Head(expansions).values \o CollectValues(Tail(expansions))

\* occurrences.push({ value, key: occurrenceKey(value), index })
Occurrences(pushed) ==
    [i \in 1..Len(pushed) |->
        [value |-> pushed[i], key |-> occurrenceKey(pushed[i]), index |-> i - 1]]

\* for (const occurrence of occurrences) yield occurrence.value
Values(sorted) == [i \in 1..Len(sorted) |-> sorted[i].value]

\* expandRecurrence from what each item contributes
MergeExpansions(expansions) ==
    IF FirstError(expansions) # NoError
    THEN [error |-> FirstError(expansions), values |-> <<>>, diverged |-> FALSE]
    ELSE [error |-> NoError,
          values |-> Values(SortOccurrences(Occurrences(CollectValues(expansions)))),
          diverged |-> \E i \in 1..Len(expansions) : expansions[i].diverged]

expandRecurrence(items, range) ==
    MergeExpansions([i \in 1..Len(items) |-> ExpandItem(items[i], range)])

\* the items as a call of expandRecurrence leaves them
ItemsAfter(items, range) == [i \in 1..Len(items) |-> ExpandItem(items[i], range).base]

\* the for-of loop of expandRecurrencePaged over the remaining occurrences
RECURSIVE PageLoop(_, _, _, _, _)
PageLoop(remaining, result, nextCursor, limit, cursor) ==
    IF remaining = <<>> THEN [items |-> result, nextCursor |-> nextCursor]
    ELSE LET occurrence == Head(remaining)
             key == occurrenceKey(occurrence)
         IN  IF cursor # Undef /\ key # Undef /\ StrLeq(key, cursor)
             THEN PageLoop(Tail(remaining), result, nextCursor, limit, cursor)
             ELSE IF cursor # Undef /\ key = Undef
             THEN PageLoop(Tail(remaining), result, nextCursor, limit, cursor)
             ELSE LET pushed == Append(result, occurrence)
                      next   == IF key # Undef THEN key ELSE nextCursor
                  IN  IF Len(pushed) >= limit
                      THEN [items |-> pushed, nextCursor |-> next]
                      ELSE PageLoop(Tail(remaining), pushed, next, limit, cursor)

\* a faulty page, used to show that the cursor properties depend on it: it
\* never reports a cursor
PageWithoutCursor(expanded, page) ==
    [error |-> expanded.error,
     items |-> IF expanded.error = NoError THEN page.items ELSE <<>>,
     nextCursor |-> Undef]

\* the page cut from the occurrences; the exception of the generator passes through
PageOf(expanded, page) ==
    [error |-> expanded.error,
     items |-> IF expanded.error = NoError THEN page.items ELSE <<>>,
     nextCursor |-> IF expanded.error = NoError THEN page.nextCursor ELSE Undef]

\* the page of an expansion
PageFrom(expanded, options) ==
    PageOf(expanded, PageLoop(expanded.values, <<>>, Undef, options.limit, options.cursor))

expandRecurrencePaged(items, range, options) ==
    PageFrom(expandRecurrence(items, range), options)

(***************************************************************************)
(* The inputs of the model: calendar objects, ranges and page limits.      *)
(***************************************************************************)

MaxLimit == 2
MaxPages == 5

AnchorWed == <<2026, 2, 4, 10, 30, 0>>
AnchorMon == <<2026, 2, 2, 9, 0, 0>>
AnchorMid == <<2026, 2, 15, 9, 0, 0>>
Anchors == {AnchorWed, AnchorMon, AnchorMid}

WeeklyWe      == [frequency |-> "weekly", byDay |-> <<NDay("we")>>]
WeeklyOnce    == [frequency |-> "weekly", count |-> 1]
WeeklyTwice   == [frequency |-> "weekly", count |-> 2]
WeeklyMoWe    == [frequency |-> "weekly", byDay |-> <<NDay("mo"), NDay("we")>>, count |-> 3]
DailyUntil    == [frequency |-> "daily", until |-> <<2026, 2, 7, 10, 30, 0>>]
DailyThrice   == [frequency |-> "daily", count |-> 3]
MonthlyDays   == [frequency |-> "monthly", byMonthDay |-> <<1, 15>>, count |-> 1]
WeeklySetPos  == [frequency |-> "weekly", byDay |-> <<NDay("mo"), NDay("we")>>,
                  bySetPosition |-> <<2, 1>>, until |-> <<2026, 2, 9, 9, 0, 0>>]
Rules == {WeeklyWe, WeeklyTwice, WeeklyMoWe, DailyUntil, DailyThrice, MonthlyDays, WeeklySetPos}

RuleLists == {<<WeeklyTwice, WeeklyWe>>, <<WeeklyWe, DailyThrice>>, <<DailyThrice, WeeklyTwice>>}

SetTitle == <<PatchEntry(<<"title">>, FALSE, JsonString("Override"))>>
SetExcluded == <<PatchEntry(<<"excluded">>, FALSE, JsonBoolean(TRUE))>>
SetStart == <<PatchEntry(<<"start">>, TRUE, JsonLocal(<<2026, 2, 12, 8, 0, 0>>))>>
OverrideLists ==
    { <<Override(<<2026, 2, 3, 10, 30, 0>>, SetTitle)>>,
      <<Override(<<2026, 2, 20, 9, 0, 0>>, SetStart), Override(<<2026, 2, 9, 9, 0, 0>>, SetExcluded)>>,
      <<Override(<<2026, 2, 11, 10, 30, 0>>, SetTitle), Override(<<2026, 3, 20, 9, 0, 0>>, SetTitle)>> }

Zones == {Null, "Asia/Tokyo"}

\* an object; a property without a value holds undefined, timeZone is an own
\* property only when the object has a zone
Object(type, title, start, due, rules, excludedRules, overrides, timeZone, recurrenceId) ==
    LET object == [k \in {"@type", "title"} |-> IF k = "@type" THEN type ELSE title]
                  @@ [k \in {"start", "due", "recurrenceRules", "excludedRecurrenceRules",
                             "recurrenceOverrides", "recurrenceId"} |->
                         CASE k = "start" -> start
                           [] k = "due" -> due
                           [] k = "recurrenceRules" -> rules
                           [] k = "excludedRecurrenceRules" -> excludedRules
                           [] k = "recurrenceOverrides" -> overrides
                           [] k = "recurrenceId" -> recurrenceId]
    IN  IF timeZone = Null THEN object ELSE WithProperty(object, "timeZone", timeZone)

Event(start, rules, excludedRules, overrides, timeZone) ==
    Object("Event", "Weekly", start, Undef, rules, excludedRules, overrides, timeZone, Undef)

RecurringObjects ==
    {Event(a, <<r>>, <<>>, <<>>, z) : a \in Anchors, r \in Rules, z \in Zones}
    \cup {Event(a, <<r>>, <<r>>, <<>>, Null) : a \in Anchors, r \in Rules}
    \cup {Event(a, <<r>>, x, o, Null) : a \in {AnchorWed, AnchorMon}, r \in {WeeklyWe, WeeklyOnce, WeeklyTwice},
                                         x \in {<<>>, <<DailyThrice>>}, o \in OverrideLists}
    \cup {Event(a, rr, <<>>, <<>>, Null) : a \in {AnchorWed, AnchorMon}, rr \in RuleLists}
    \cup {Object("Task", "Report", Undef, AnchorMon, <<r>>, <<>>, <<>>, Null, Undef) :
              r \in {WeeklyTwice, DailyUntil}}

First  == Object("Event", "First", <<2026, 2, 1, 9, 0, 0>>, Undef, <<>>, <<>>, <<>>, Null, Undef)
Second == Object("Event", "Second", <<2026, 2, 3, 9, 0, 0>>, Undef, <<>>, <<>>, <<>>, Null, Undef)
Twin   == Object("Event", "Twin", <<2026, 2, 3, 9, 0, 0>>, Undef, <<>>, <<>>, <<>>, Null, Undef)
Detached == Object("Event", "Detached", <<2026, 2, 5, 9, 0, 0>>, Undef, <<>>, <<>>, <<>>, Null,
                   <<2026, 1, 29, 9, 0, 0>>)
Patched == Object("Event", "Patched", <<2026, 3, 4, 9, 0, 0>>, Undef, <<>>, <<>>,
                  <<Override(<<2026, 2, 6, 9, 0, 0>>, SetTitle)>>, "Asia/Tokyo", Undef)
DueTask == Object("Task", "Due", Undef, <<2026, 2, 3, 9, 0, 0>>, <<>>, <<>>, <<>>, Null, Undef)
Floating == Object("Task", "Floating", Undef, Undef, <<>>, <<>>, <<>>, Null, Undef)
Folder == Object("Group", "Folder", Undef, Undef, <<>>, <<>>, <<>>, Null, Undef)
Shelf  == Object("Group", "Shelf", Undef, Undef, <<>>, <<>>, <<>>, Null, Undef)
PlainObjects == {First, Second, Twin, Detached, Patched, DueTask, Floating, Folder, Shelf}

\* rules with an rscale, as objects built with validate: false may hold them
HebrewDaily    == [frequency |-> "daily", rscale |-> "hebrew"]
GregorianDaily == [frequency |-> "daily", count |-> 2, rscale |-> "gregorian"]

\* anchors that do not match the LocalDateTime grammar: "2026-02-05" and "2026-03-05"
DateOnly     == <<2026, 2, 5>>
DateOnlyLate == <<2026, 3, 5>>

\* objects with an unsupported rscale, with a malformed anchor, and with an
\* override key that an excluded rule generates too
ScaleObjects ==
    { Event(AnchorWed, <<HebrewDaily>>, <<>>, <<>>, Null),
      Event(AnchorWed, <<GregorianDaily>>, <<>>, <<>>, Null),
      Event(AnchorWed, <<WeeklyWe>>, <<HebrewDaily>>, <<>>, Null),
      Event(AnchorWed, <<WeeklyWe, HebrewDaily>>, <<>>, <<>>, "Asia/Tokyo"),
      Event(AnchorWed, <<>>, <<HebrewDaily>>, <<>>, Null),
      Object("Task", "Report", Undef, AnchorMon, <<>>, <<HebrewDaily>>, <<>>, "Asia/Tokyo", Undef) }

MalformedObjects ==
    { Event(DateOnly, <<WeeklyWe>>, <<>>, <<>>, Null),
      Event(DateOnly, <<WeeklyWe>>, <<>>, <<>>, "Asia/Tokyo"),
      Event(DateOnly, <<>>, <<>>, <<>>, Null),
      Event(DateOnly, <<>>, <<>>, <<>>, "Asia/Tokyo"),
      Event(DateOnlyLate, <<>>, <<>>, <<>>, Null),
      Object("Task", "Report", Undef, DateOnly, <<>>, <<>>, <<>>, Null, Undef),
      Object("Task", "Report", Undef, DateOnly, <<DailyThrice>>, <<>>, <<>>, Null, Undef) }

ExcludedOverrideObjects ==
    { Event(AnchorWed, <<r>>, <<DailyThrice>>, <<Override(k, SetTitle)>>, z) :
          r \in {WeeklyWe, WeeklyTwice},
          k \in {<<2026, 2, 5, 10, 30, 0>>, <<2026, 2, 4, 10, 30, 0>>, <<2026, 2, 7, 10, 30, 0>>},
          z \in Zones }

SetDue       == <<PatchEntry(<<"due">>, FALSE, JsonLocal(<<2026, 2, 5, 17, 0, 0>>))>>
SetTaskStart == <<PatchEntry(<<"start">>, TRUE, JsonLocal(<<2026, 2, 3, 8, 0, 0>>))>>

\* tasks that have a due date only, with an override on Wednesday 4 February
\* that sets the due date, the title, or a start
TaskOverrideObjects ==
    { Object("Task", "Report", Undef, AnchorMon, <<WeeklyWe>>, <<>>,
             <<Override(<<2026, 2, 4, 9, 0, 0>>, p)>>, Null, Undef) :
          p \in {SetDue, SetTitle, SetTaskStart} }

\* a rule whose until is "2026-02-07", and objects with such a rule or with
\* the override key "2026-02-05"
DailyUntilDate == [frequency |-> "daily", until |-> <<2026, 2, 7>>]

MalformedKeyObjects ==
    { Event(AnchorWed, <<DailyUntilDate>>, <<>>, <<>>, z) : z \in Zones }
    \cup { Event(AnchorWed, r, <<>>, <<Override(DateOnly, SetTitle)>>, z) :
               r \in {<<>>, <<WeeklyWe>>}, z \in Zones }

\* an event at 9 and 17 hours of three days counted from Monday 2 February,
\* with an override on Tuesday 3 February at 10:30
DailyTwoHours == [frequency |-> "daily", byHour |-> <<9, 17>>, count |-> 3]

CountOverrideObjects ==
    { Event(AnchorMon, <<DailyTwoHours>>, <<>>,
            <<Override(<<2026, 2, 3, 10, 30, 0>>, SetTitle)>>, Null) }

EdgeObjects == ScaleObjects \cup MalformedObjects \cup ExcludedOverrideObjects
               \cup TaskOverrideObjects \cup MalformedKeyObjects \cup CountOverrideObjects

ItemLists ==
    {<<a>> : a \in RecurringObjects \cup PlainObjects \cup EdgeObjects}
    \cup {<<First, b>> : b \in ScaleObjects \cup MalformedObjects}
    \cup {<<a, b>> : a, b \in {First, Second, Twin, DueTask, Folder, Shelf}}
    \cup {<<a, b>> : a \in {Second, Folder}, b \in {Event(AnchorMon, <<WeeklyTwice>>, <<>>, <<>>, Null)}}

Date(value) == parseLocalDateTime(value)

Ranges ==
    { [from |-> Date(<<2026, 2, 1, 0, 0, 0>>), to |-> Date(<<2026, 2, 28, 0, 0, 0>>)],
      [from |-> Date(<<2026, 2, 3, 1, 30, 0>>), to |-> Date(<<2026, 2, 10, 0, 0, 0>>)] }

Limits == 0..MaxLimit

(***************************************************************************)
(* The state machine: a caller holds items and a range, expands them, and  *)
(* pages through them, passing each nextCursor to the next call until a    *)
(* page comes back empty.                                                  *)
(***************************************************************************)

VARIABLES items, range, expanded, out, limit, cursor, fetched, page, pages, done

\* one rule and one anchor, followed through normalizeRule, the periods of
\* the driver and the expansion of the event that holds the rule
VARIABLES rrule, dtstart, normal, renormal, normalizations,
          periodAt, periodDates, periodInstants, periods, expansion, ruleResults, ran

objectVars == <<items, range, expanded, out, limit, cursor, fetched, page, pages, done>>

ruleVars == <<rrule, dtstart, normal, renormal, normalizations,
              periodAt, periodDates, periodInstants, periods, expansion, ruleResults, ran>>

\* one date and one first day of the week, given to weekNumber and to
\* totalWeeksInYear
VARIABLES weekDate, weekFirstDay, weekOfDate, weeksOfYear, numbered, counted

weekVars == <<weekDate, weekFirstDay, weekOfDate, weeksOfYear, numbered, counted>>

vars == <<objectVars, ruleVars, weekVars>>

NoResult == [error |-> NoError, values |-> <<>>, diverged |-> FALSE]
NoPage == [error |-> NoError, items |-> <<>>, nextCursor |-> Undef]

\* a rule and a date that stand for "none yet"
NoRule == [frequency |-> "none"]
NoDateTime == parseLocalDateTime(<<1970, 1, 1, 0, 0, 0>>)

\* the rule-level variables while the caller works on whole objects
RuleIdle ==
    /\ rrule = NoRule
    /\ dtstart = <<1970, 1, 1, 0, 0, 0>>
    /\ normal = NoRule
    /\ renormal = NoRule
    /\ normalizations = 0
    /\ periodAt = NoDateTime
    /\ periodDates = <<>>
    /\ periodInstants = <<>>
    /\ periods = 0
    /\ expansion = NoResult
    /\ ruleResults = <<>>
    /\ ran = FALSE

\* the week-level variables while the caller works on objects or rules
WeekIdle ==
    /\ weekDate = NoDateTime
    /\ weekFirstDay = "mo"
    /\ weekOfDate = 0
    /\ weeksOfYear = 0
    /\ numbered = FALSE
    /\ counted = FALSE

Init ==
    /\ items \in ItemLists
    /\ range \in Ranges
    /\ expanded = FALSE
    /\ out = NoResult
    /\ limit = 0
    /\ cursor = Undef
    /\ fetched = 0
    /\ page = NoPage
    /\ pages = <<>>
    /\ done = FALSE
    /\ RuleIdle
    /\ WeekIdle

\* for (const occurrence of expandRecurrence(items, range)) by a caller that drains it
Expand ==
    /\ ~expanded
    /\ expanded' = TRUE
    /\ out' = expandRecurrence(items, range)
    /\ items' = ItemsAfter(items, range)
    /\ UNCHANGED <<range, limit, cursor, fetched, page, pages, done>>
    /\ UNCHANGED ruleVars
    /\ UNCHANGED weekVars

\* one call of expandRecurrencePaged; the first call fixes the limit
FetchPage ==
    /\ ~done
    /\ fetched < MaxPages
    /\ \E l \in (IF fetched = 0 THEN Limits ELSE {limit}) :
          /\ limit' = l
          /\ page' = expandRecurrencePaged(items, range, [limit |-> l, cursor |-> cursor])
    /\ pages' = pages \o page'.items
    /\ cursor' = page'.nextCursor
    /\ done' = (page'.error # NoError \/ page'.items = <<>>)
    /\ fetched' = fetched + 1
    /\ items' = ItemsAfter(items, range)
    /\ UNCHANGED <<range, expanded, out>>
    /\ UNCHANGED ruleVars
    /\ UNCHANGED weekVars

Next == Expand \/ FetchPage

Spec == Init /\ [][Next]_vars

(***************************************************************************)
(* One rule followed on its own: the expansion of an event that has the    *)
(* rule as its only recurrence rule, then the steps of that call one by    *)
(* one: normalizeRule, the periods the driver visits, and normalizeRule on *)
(* its own output.                                                         *)
(***************************************************************************)

\* periods of one rule that are opened one by one
MaxSteps == 3

\* periods of the rule that the range of its event reaches past the anchor
MaxReach == 3

Frequencies == {"yearly", "monthly", "weekly", "daily", "hourly", "minutely", "secondly"}

Skips == {"omit", "forward", "backward"}

\* the frequencies whose loop ends within a few periods past the range, and
\* those whose loop runs to the end of the day and is given a count here
CalendarFrequencies == {"yearly", "monthly", "weekly", "daily"}
ClockFrequencies == {"hourly", "minutely", "secondly"}

PlainRules ==
    {[frequency |-> f] : f \in CalendarFrequencies}
    \cup {[frequency |-> f, count |-> 3] : f \in ClockFrequencies}

\* assertUnsignedInt lets interval 0 through
IntervalRules ==
    {[frequency |-> f, interval |-> 2] : f \in CalendarFrequencies}
    \cup {[frequency |-> f, interval |-> 2, count |-> 3] : f \in ClockFrequencies}
    \cup {[frequency |-> f, interval |-> 0] : f \in Frequencies}
    \cup {[frequency |-> "daily", interval |-> 0, count |-> 2]}

YearlyParts ==
    [byMonth |-> <<"2", "3">>, byWeekNo |-> <<6>>, byYearDay |-> <<45, -1>>,
     byMonthDay |-> <<1, 31>>, byDay |-> <<NDay("mo")>>]

\* every combination of the BY* properties the yearly defaults look at; the
\* count keeps a rule with byDay only from yielding every week of the year
YearlyRules ==
    {[frequency |-> "yearly", count |-> 2] @@ [k \in S |-> YearlyParts[k]] :
        S \in SUBSET DOMAIN YearlyParts}

MonthlyParts ==
    [byMonth |-> <<"2">>, byMonthDay |-> <<15, -1>>, byDay |-> <<NDay("fr")>>]

MonthlyRules ==
    {[frequency |-> "monthly"] @@ [k \in S |-> MonthlyParts[k]] : S \in SUBSET DOMAIN MonthlyParts}

SkipRules ==
    {[frequency |-> "monthly", byMonthDay |-> d, skip |-> s] :
        d \in {<<31>>, <<1, 31>>, <<30, 31>>, <<29, 30, 31>>}, s \in Skips}
    \cup {[frequency |-> "yearly", byMonth |-> <<"2", "3", "4">>, byMonthDay |-> d, skip |-> s] :
        d \in {<<31>>, <<1, 30>>}, s \in Skips}

Weekdays == <<NDay("mo"), NDay("tu"), NDay("we"), NDay("th"), NDay("fr")>>

SetPosRules ==
    {[frequency |-> "monthly", byDay |-> Weekdays, bySetPosition |-> p] :
        p \in {<<1>>, <<-1>>, <<2, -2>>, <<-1, 1>>, <<30>>}}
    \cup {[frequency |-> "monthly", byDay |-> <<NDay("mo"), NDay("tu")>>,
           byHour |-> <<9, 17>>, bySetPosition |-> <<3, -1>>],
          [frequency |-> "weekly", byDay |-> <<NDay("mo"), NDay("we"), NDay("fr")>>,
           bySetPosition |-> <<-1>>],
          [frequency |-> "weekly", byDay |-> <<NDay("mo"), NDay("we"), NDay("fr")>>,
           bySetPosition |-> <<2, 4>>],
          [frequency |-> "yearly", byMonth |-> <<"2">>, byDay |-> <<NDay("fr")>>,
           bySetPosition |-> <<-1>>],
          [frequency |-> "daily", byHour |-> <<8, 12, 16>>, bySetPosition |-> <<2>>],
          [frequency |-> "hourly", byMinute |-> <<0, 30>>, bySetPosition |-> <<-1>>,
           count |-> 3]}

\* weekly rules on weekdays other than the one of the anchor
WeekdayRules ==
    {[frequency |-> "weekly", interval |-> 2, byDay |-> <<NDay("mo"), NDay("we")>>],
     [frequency |-> "weekly", byDay |-> <<NDay("mo")>>, count |-> 3],
     [frequency |-> "weekly", interval |-> 2, byDay |-> <<NDay("su"), NDay("th")>>,
      firstDayOfWeek |-> "su"]}

\* a day no month of the range has in February, with a weekday and a policy
SkipDayRules ==
    {[frequency |-> "monthly", byMonthDay |-> <<31>>, byDay |-> <<NDay(d)>>, skip |-> s] :
        d \in {"su", "tu", "sa", "th"}, s \in {"forward", "backward"}}

\* rules that name a time of day or a position twice, clock rules with the
\* BY* property of a coarser unit, and positions out of order with an until
RepeatRules ==
    {[frequency |-> "daily", bySetPosition |-> <<1, 1>>, count |-> 3],
     [frequency |-> "daily", byHour |-> <<9, 9>>, count |-> 3],
     [frequency |-> "hourly", byHour |-> <<10, 11>>, count |-> 4],
     [frequency |-> "minutely", bySecond |-> <<5, 35>>, count |-> 3],
     [frequency |-> "monthly", byDay |-> Weekdays, bySetPosition |-> <<-1, 1>>,
      until |-> <<2026, 2, 20, 0, 0, 0>>]}

\* rules whose caller passed empty BY* lists
EmptyListRules ==
    {[frequency |-> "weekly", byDay |-> <<>>, byHour |-> <<>>],
     [frequency |-> "monthly", byMonthDay |-> <<>>, byDay |-> <<>>],
     [frequency |-> "yearly", byMonth |-> <<>>, byWeekNo |-> <<>>, byMonthDay |-> <<15>>],
     [frequency |-> "minutely", bySecond |-> <<>>, byMinute |-> <<>>, count |-> 2]}

RuleInputs == PlainRules \cup IntervalRules \cup YearlyRules \cup MonthlyRules
              \cup SkipRules \cup SetPosRules
              \cup WeekdayRules \cup SkipDayRules \cup RepeatRules
              \cup EmptyListRules

\* a last day of January, a Wednesday in February, the leap day of 2028
Starts == {<<2026, 1, 31, 10, 30, 5>>, <<2026, 2, 4, 9, 0, 0>>, <<2028, 2, 29, 12, 0, 0>>}

\* the range of the event of a rule: from new year 2026 to MaxReach periods past
\* the anchor, to the next new year for a yearly rule
WindowOf(rule, start) ==
    [from |-> Date(<<2026, 1, 1, 0, 0, 0>>),
     to   |-> addInterval(parseLocalDateTime(start), rule["frequency"],
                          IF rule["frequency"] = "yearly" THEN 1 ELSE MaxReach, "mo")]

\* normalized.interval ?? 1
IntervalOf(n) == IF Has(n, "interval") THEN n["interval"] ELSE 1

\* normalized.firstDayOfWeek ?? "mo"
FirstDayOf(n) == IF Has(n, "firstDayOfWeek") THEN n["firstDayOfWeek"] ELSE "mo"

\* normalized.skip ?? "omit"
SkipOf(n) == IF Has(n, "skip") THEN n["skip"] ELSE "omit"

\* the dates of the period at periodStart that pass the BY* filters
FilteredDates(periodStart, n) ==
    filterDateCandidates(generateDateCandidates(periodStart, n, FirstDayOf(n), SkipOf(n)),
                         n, periodStart, FirstDayOf(n), SkipOf(n))

\* the list expandRule returns to expandObject for the rule of an event
\* without a time zone
RuleResults(anchor, rule, within) ==
    expandRule(anchor, rule, localDateTimeFromDate(within.from),
               localDateTimeFromDate(within.to), TRUE, Null, within.from, within.to).results

\* the object-level variables while one rule is followed
ObjectIdle ==
    /\ items = <<>>
    /\ range = [from |-> Date(<<2026, 1, 1, 0, 0, 0>>), to |-> Date(<<2026, 1, 1, 0, 0, 0>>)]
    /\ expanded = FALSE
    /\ out = NoResult
    /\ limit = 0
    /\ cursor = Undef
    /\ fetched = 0
    /\ page = NoPage
    /\ pages = <<>>
    /\ done = FALSE

RuleInit ==
    /\ ObjectIdle
    /\ WeekIdle
    /\ rrule \in RuleInputs
    /\ dtstart \in Starts
    /\ normal = NoRule
    /\ renormal = NoRule
    /\ normalizations = 0
    /\ periodAt = NoDateTime
    /\ periodDates = <<>>
    /\ periodInstants = <<>>
    /\ periods = 0
    /\ expansion = NoResult
    /\ ruleResults = <<>>
    /\ ran = FALSE

\* the same call followed step by step: const normalized = normalizeRule(rule, start)
Normalize ==
    /\ ran
    /\ normalizations = 0
    /\ normal' = normalizeRule(rrule, parseLocalDateTime(dtstart))
    /\ normalizations' = 1
    /\ UNCHANGED <<rrule, dtstart, renormal, periodAt, periodDates, periodInstants,
                   periods, expansion, ruleResults, ran>>
    /\ UNCHANGED objectVars
    /\ UNCHANGED weekVars

\* normalizeRule applied to a rule it returned, with the same start
NormalizeAgain ==
    /\ normalizations = 1
    /\ renormal' = normalizeRule(normal, parseLocalDateTime(dtstart))
    /\ normalizations' = 2
    /\ UNCHANGED <<rrule, dtstart, normal, periodAt, periodDates, periodInstants,
                   periods, expansion, ruleResults, ran>>
    /\ UNCHANGED objectVars
    /\ UNCHANGED weekVars

\* one turn of the while loop of expandRule: the period at the cursor, which
\* starts at the anchor and moves on by addInterval
OpenPeriod ==
    /\ normalizations = 1
    /\ periods < MaxSteps
    /\ periodAt' = IF periods = 0 THEN parseLocalDateTime(dtstart)
                   ELSE addInterval(periodAt, normal["frequency"], IntervalOf(normal),
                                    FirstDayOf(normal))
    /\ periodDates' = FilteredDates(periodAt', normal)
    /\ periodInstants' = PeriodInstants(periodAt', normal, FirstDayOf(normal), SkipOf(normal))
    /\ periods' = periods + 1
    /\ UNCHANGED <<rrule, dtstart, normal, renormal, normalizations, expansion,
                   ruleResults, ran>>
    /\ UNCHANGED objectVars
    /\ UNCHANGED weekVars

\* expandRecurrence on the event that has the rule as its only recurrence rule
RunRule ==
    /\ ~ran
    /\ ran' = TRUE
    /\ expansion' = expandEvent(Event(dtstart, <<rrule>>, <<>>, <<>>, Null),
                                WindowOf(rrule, dtstart))
    /\ ruleResults' = RuleResults(dtstart, rrule, WindowOf(rrule, dtstart))
    /\ UNCHANGED <<rrule, dtstart, normal, renormal, normalizations,
                   periodAt, periodDates, periodInstants, periods>>
    /\ UNCHANGED objectVars
    /\ UNCHANGED weekVars

RuleNext == Normalize \/ NormalizeAgain \/ OpenPeriod \/ RunRule

RuleSpec == RuleInit /\ [][RuleNext]_vars

(***************************************************************************)
(* The state machine of one date: weekNumber and totalWeeksInYear are      *)
(* applied to a date and a first day of the week.                          *)
(***************************************************************************)

\* the years and the days the dates are drawn from: the turns of the years,
\* a leap day and days in the middle of the year
WeekYears == {2024, 2025, 2026, 2027}
WeekDays ==
    {<<12, d>> : d \in 25..31} \cup {<<1, d>> : d \in 1..7}
    \cup {<<2, 28>>, <<6, 15>>, <<9, 30>>}

WeekDates ==
    {[year |-> y, month |-> md[1], day |-> md[2], hour |-> 0, minute |-> 0, second |-> 0] :
        y \in WeekYears, md \in WeekDays}

WeekInit ==
    /\ ObjectIdle
    /\ RuleIdle
    /\ weekDate \in WeekDates
    /\ weekFirstDay \in SeqToSet(WeekOrder)
    /\ weekOfDate = 0
    /\ weeksOfYear = 0
    /\ numbered = FALSE
    /\ counted = FALSE

\* weekNumber(date, firstDay), as matchesByWeekNo calls it
NumberWeek ==
    /\ ~numbered
    /\ weekOfDate' = weekNumber(weekDate, weekFirstDay)
    /\ numbered' = TRUE
    /\ UNCHANGED <<weekDate, weekFirstDay, weeksOfYear, counted>>
    /\ UNCHANGED objectVars
    /\ UNCHANGED ruleVars

\* totalWeeksInYear(date.year, firstDay), as matchesByWeekNo calls it
CountWeeks ==
    /\ ~counted
    /\ weeksOfYear' = totalWeeksInYear(weekDate.year, weekFirstDay)
    /\ counted' = TRUE
    /\ UNCHANGED <<weekDate, weekFirstDay, weekOfDate, numbered>>
    /\ UNCHANGED objectVars
    /\ UNCHANGED ruleVars

WeekNext == NumberWeek \/ CountWeeks

WeekSpec == WeekInit /\ [][WeekNext]_vars

(***************************************************************************)
(* Vocabulary of the properties.                                           *)
(***************************************************************************)

IsRecurring(item) ==
    item["@type"] \in {"Event", "Task"} /\ Get(item, "recurrenceRules") # <<>>

AnchorOf(item) == IF Get(item, "start") # Undef THEN item["start"] ELSE Get(item, "due")

ZoneOf(item) == IF Has(item, "timeZone") THEN item["timeZone"] ELSE Null

FromLocalOf(item) ==
    IF ZoneOf(item) # Null THEN dateTimeInTimeZone(range.from, ZoneOf(item))
    ELSE localDateTimeFromDate(range.from)

ToLocalOf(item) ==
    IF ZoneOf(item) # Null THEN dateTimeInTimeZone(range.to, ZoneOf(item))
    ELSE localDateTimeFromDate(range.to)

\* key lies within [from, to]: as an instant for an object with a zone, as a
\* string otherwise
KeyInRange(item, key) ==
    IF ZoneOf(item) # Null
    THEN LET utc == DateValue(addHours(parseLocalDateTime(key), -ZoneOffsetHours(ZoneOf(item))))
         IN  StrLeq(DateValue(range.from), utc) /\ StrLeq(utc, DateValue(range.to))
    ELSE StrLeq(FromLocalOf(item), key) /\ StrLeq(key, ToLocalOf(item))

\* the in-range instants a rule of the item generates on its own
InstantsOf(item, rule) ==
    SeqToSet(expandRule(AnchorOf(item), rule, FromLocalOf(item), ToLocalOf(item), TRUE,
                        ZoneOf(item), range.from, range.to).results)

Without(rule, key) == [k \in DOMAIN rule \ {key} |-> rule[k]]

ExcludedByRule(item, key) ==
    \E i \in 1..Len(item["excludedRecurrenceRules"]) :
        key \in InstantsOf(item, item["excludedRecurrenceRules"][i])

ExcludedByOverride(item, key) ==
    \E i \in 1..Len(item["recurrenceOverrides"]) :
        /\ item["recurrenceOverrides"][i].key = key
        /\ \E j \in 1..Len(item["recurrenceOverrides"][i].patch) :
              LET entry == item["recurrenceOverrides"][i].patch[j]
              IN  entry.pointer = <<"excluded">> /\ entry.value = JsonBoolean(TRUE)

OutKeys == [i \in 1..Len(out.values) |-> occurrenceKey(out.values[i])]

RecurrenceIds == {Get(out.values[i], "recurrenceId") : i \in 1..Len(out.values)}

Expanded == expanded /\ out.error = NoError /\ ~out.diverged

\* the first n elements of a list, or all of it
Take(s, n) == SubSeq(s, 1, Min(n, Len(s)))

\* the elements of a set of LocalDateTime strings in ascending order
RECURSIVE Ascending(_)
Ascending(set) ==
    IF set = {} THEN <<>>
    ELSE LET least == CHOOSE x \in set : \A y \in set : StrLeq(x, y)
         IN  <<least>> \o Ascending(set \ {least})

(***************************************************************************)
(* C1. Anchor inclusion: every Event or Task with at least one recurrence  *)
(* rule whose anchor lies within the range, is generated by no exclusion   *)
(* rule and is not overridden with excluded = true, has an occurrence      *)
(* whose recurrenceId is the anchor, whatever its rules, count and         *)
(* override keys are.                                                      *)
(***************************************************************************)
AnchorIncluded ==
    Expanded =>
        \A i \in 1..Len(items) :
            ( /\ IsRecurring(items[i])
              /\ KeyInRange(items[i], AnchorOf(items[i]))
              /\ ~ExcludedByRule(items[i], AnchorOf(items[i]))
              /\ ~ExcludedByOverride(items[i], AnchorOf(items[i])) )
            => AnchorOf(items[i]) \in RecurrenceIds

(***************************************************************************)
(* C2. Count includes the anchor: an object with a single rule with        *)
(* count = N, no exclusion rules and no overrides yields, over a range     *)
(* that covers the series, exactly the anchor followed by the N - 1        *)
(* earliest distinct instants of the rule after it, whenever the rule has  *)
(* that many; over any range it yields at most N occurrences.              *)
(***************************************************************************)
CountedItem ==
    /\ Len(items) = 1
    /\ IsRecurring(items[1])
    /\ Len(items[1]["recurrenceRules"]) = 1
    /\ Has(items[1]["recurrenceRules"][1], "count")
    /\ items[1]["excludedRecurrenceRules"] = <<>>
    /\ items[1]["recurrenceOverrides"] = <<>>

\* the instants after the anchor of the rule taken without its count
LaterInstants ==
    {x \in InstantsOf(items[1], Without(items[1]["recurrenceRules"][1], "count")) :
        StrLess(AnchorOf(items[1]), x)}

\* the range holds the anchor and the N - 1 instants that follow it
CoversSeries ==
    /\ KeyInRange(items[1], AnchorOf(items[1]))
    /\ Cardinality(LaterInstants) >= items[1]["recurrenceRules"][1]["count"] - 1

CountIncludesAnchor ==
    (Expanded /\ CountedItem) =>
        /\ Len(out.values) <= items[1]["recurrenceRules"][1]["count"]
        /\ CoversSeries =>
              OutKeys = <<AnchorOf(items[1])>>
                        \o Take(Ascending(LaterInstants), items[1]["recurrenceRules"][1]["count"] - 1)

(***************************************************************************)
(* C3. Until is inclusive and terminal: for a rule with until = U no       *)
(* occurrence produced for the rule has a key later than U, and an instant *)
(* of the rule equal to U that lies in the range is emitted.               *)
(***************************************************************************)
UntilItem ==
    /\ Len(items) = 1
    /\ IsRecurring(items[1])
    /\ Len(items[1]["recurrenceRules"]) = 1
    /\ Has(items[1]["recurrenceRules"][1], "until")
    /\ items[1]["excludedRecurrenceRules"] = <<>>
    /\ items[1]["recurrenceOverrides"] = <<>>

UntilOf(item) == item["recurrenceRules"][1]["until"]

UntilInclusiveAndTerminal ==
    (Expanded /\ UntilItem) =>
        /\ \A i \in 1..Len(OutKeys) :
              OutKeys[i] = AnchorOf(items[1]) \/ StrLeq(OutKeys[i], UntilOf(items[1]))
        /\ ( /\ UntilOf(items[1]) \in InstantsOf(items[1], Without(items[1]["recurrenceRules"][1], "until"))
             /\ StrLeq(AnchorOf(items[1]), UntilOf(items[1]))
             /\ KeyInRange(items[1], UntilOf(items[1])) )
           => UntilOf(items[1]) \in RecurrenceIds

(***************************************************************************)
(* C4. Range safety.  As the claim words it: every Event or Task           *)
(* occurrence yielded has its key (recurrenceId, else the object's own     *)
(* start or due) within [from, to], bounds included, with and without a    *)
(* time zone.                                                              *)
(***************************************************************************)
IsOccurrence(value) == value["@type"] \in {"Event", "Task"}

EveryKeyInRange ==
    Expanded =>
        \A i \in 1..Len(out.values) :
            IsOccurrence(out.values[i]) => KeyInRange(out.values[i], OutKeys[i])

\* an object without rules that expandObject yields as it is keeps its
\* recurrence properties; a materialized instance has them stripped
YieldedAsItself(value) == Has(value, "recurrenceRules")

(***************************************************************************)
(* C4, as the code has it: every materialized instance (of a rule instant, *)
(* of the anchor of an object with rules, of an override key) has its      *)
(* recurrenceId within [from, to]; an object without rules that is yielded *)
(* as itself has its anchor (start, else due) within [from, to], whether   *)
(* or not it carries a recurrenceId of its own.                            *)
(***************************************************************************)
RangeSafety ==
    Expanded =>
        \A i \in 1..Len(out.values) :
            IsOccurrence(out.values[i]) =>
                IF YieldedAsItself(out.values[i])
                THEN KeyInRange(out.values[i], AnchorOf(out.values[i]))
                ELSE KeyInRange(out.values[i], out.values[i]["recurrenceId"])

\* an object with a zone whose anchor lies before the range and whose later
\* instants are yielded
RangeSafetyWitness ==
    /\ Expanded
    /\ Len(items) = 1
    /\ IsRecurring(items[1])
    /\ ZoneOf(items[1]) # Null
    /\ ~KeyInRange(items[1], AnchorOf(items[1]))
    /\ Len(out.values) >= 1

(***************************************************************************)
(* C5. Overrides add occurrences: for an object with rules every override  *)
(* key within the range whose patch does not set excluded = true yields an *)
(* occurrence with that recurrenceId, also when no rule generates the key, *)
(* and the occurrences of the object come out in ascending key order.      *)
(***************************************************************************)
OverridesAdded ==
    (Expanded /\ Len(items) = 1 /\ IsRecurring(items[1])) =>
        /\ \A i \in 1..Len(items[1]["recurrenceOverrides"]) :
              LET key == items[1]["recurrenceOverrides"][i].key
              IN  (KeyInRange(items[1], key) /\ ~ExcludedByOverride(items[1], key))
                  => key \in RecurrenceIds
        /\ \A i, j \in 1..Len(OutKeys) : i < j => StrLess(OutKeys[i], OutKeys[j])

(***************************************************************************)
(* C6. Exclusion by an identical rule.  As the claim words it: an object   *)
(* without overrides whose exclusion rules hold a rule identical to its    *)
(* only recurrence rule yields no occurrence at all, for every rule and    *)
(* every anchor.                                                           *)
(***************************************************************************)
SelfExcludedItem ==
    /\ Len(items) = 1
    /\ IsRecurring(items[1])
    /\ Len(items[1]["recurrenceRules"]) = 1
    /\ Includes(items[1]["excludedRecurrenceRules"], items[1]["recurrenceRules"][1])
    /\ items[1]["recurrenceOverrides"] = <<>>

UnionOfRules ==
    (Expanded /\ Len(items) = 1 /\ IsRecurring(items[1])
              /\ Len(items[1]["recurrenceRules"]) >= 2) =>
        LET union == UNION {InstantsOf(items[1], items[1]["recurrenceRules"][i]) :
                               i \in 1..Len(items[1]["recurrenceRules"])}
            added == {AnchorOf(items[1])}
                     \cup {items[1]["recurrenceOverrides"][i].key :
                              i \in 1..Len(items[1]["recurrenceOverrides"])}
        IN  /\ \A x \in union :
                  ( /\ KeyInRange(items[1], x)
                    /\ ~ExcludedByRule(items[1], x)
                    /\ ~ExcludedByOverride(items[1], x) ) => x \in RecurrenceIds
            /\ RecurrenceIds \subseteq union \cup added

\* what the items push, in input order, before the sort
Pushed == CollectValues([i \in 1..Len(items) |-> ExpandItem(items[i], range)])

\* the elements of a list of values whose key is key, in the order of the list
WithKey(values, key) == SelectSeq(values, LAMBDA v : occurrenceKey(v) = key)

Reverse(s) == [i \in 1..Len(s) |-> s[Len(s) + 1 - i]]

KeysOf(values) == [i \in 1..Len(values) |-> occurrenceKey(values[i])]

(***************************************************************************)
(* C8. Sorted merge across items: expandRecurrence yields the occurrences  *)
(* of a list of items in non-decreasing order of their key, the ones       *)
(* without a key last, whatever the order of the input items; occurrences  *)
(* with equal keys, and occurrences without a key, keep their input order. *)
(***************************************************************************)
SortedMerge ==
    Expanded =>
        /\ \A i, j \in 1..Len(OutKeys) :
              i < j => \/ OutKeys[j] = Undef
                       \/ OutKeys[i] # Undef /\ StrLeq(OutKeys[i], OutKeys[j])
        /\ \A k \in SeqToSet(KeysOf(Pushed)) : WithKey(out.values, k) = WithKey(Pushed, k)
        /\ Len(out.values) = Len(Pushed)
        /\ KeysOf(expandRecurrence(Reverse(items), range).values) = OutKeys

\* two items given against the order of their keys come out reordered
SortedMergeWitness ==
    /\ Expanded
    /\ Len(items) = 2
    /\ Len(Pushed) >= 2
    /\ out.values # Pushed

(***************************************************************************)
(* C9. Pagination continuity: paging with a fixed limit >= 1, first        *)
(* without a cursor and then with each page's nextCursor until a page      *)
(* comes back empty, gives pages whose concatenation is the sequence of    *)
(* expandRecurrence on the same inputs: nothing missing, nothing repeated. *)
(***************************************************************************)
PagesReproduceExpansion ==
    (done /\ limit >= 1 /\ page.error = NoError) =>
        pages = expandRecurrence(items, range).values

(***************************************************************************)
(* C10. Page size bound: a page returned by expandRecurrencePaged never    *)
(* holds more than options.limit items, for every unsigned limit.          *)
(***************************************************************************)
PageWithinLimit ==
    fetched >= 1 => Len(page.items) <= limit

\* the whole sequence the pages are cut from
Stream == expandRecurrence(items, range).values

\* a call of expandRecurrencePaged has returned
Fetched == fetched >= 1 /\ page.error = NoError

\* the items of a list that have a key, in the order of the list
Keyed(values) == SelectSeq(values, LAMBDA v : occurrenceKey(v) # Undef)

\* the pages fetched so far make up the whole sequence: after the last page
\* no occurrence remains
ExhaustsStream == Fetched /\ page.items # <<>> /\ pages = Stream

(***************************************************************************)
(* C11. Next cursor, as stated: the page reports the key of its last item  *)
(* as nextCursor, and no nextCursor when it is empty or when no occurrence *)
(* remains after it.                                                       *)
(***************************************************************************)
NextCursorAbsentAtEnd ==
    Fetched =>
        IF page.items = <<>> \/ ExhaustsStream
        THEN page.nextCursor = Undef
        ELSE page.nextCursor = occurrenceKey(page.items[Len(page.items)])

(***************************************************************************)
(* C11, amended. The page reports as nextCursor the key of its last item   *)
(* that has a key, also when no occurrence remains after the page; it      *)
(* reports no nextCursor exactly when it holds no item with a key, as an   *)
(* empty page does.                                                        *)
(***************************************************************************)
NextCursorIsLastKey ==
    Fetched =>
        page.nextCursor = IF Keyed(page.items) = <<>> THEN Undef
                          ELSE occurrenceKey(Keyed(page.items)[Len(Keyed(page.items))])

\* a page after which no occurrence remains, reporting a cursor all the same
NextCursorWitness ==
    /\ ExhaustsStream
    /\ limit >= 1
    /\ Len(page.items) = limit
    /\ page.nextCursor # Undef

(***************************************************************************)
(* C12. Finite expansion: for every rule that validation accepts (any      *)
(* frequency, any unsigned interval, with or without count or until, any   *)
(* BY* fields) and every bounded range, the driver halts after finitely    *)
(* many periods: the expansion of the event of the rule never runs out of  *)
(* the period budget.                                                      *)
(***************************************************************************)
ExpansionHalts == ran => ~expansion.diverged

\* the driver does halt for the rules whose interval moves the cursor; the only
\* rules it does not halt for have interval 0 and no count
HaltsWhenAdvancing ==
    ran => (expansion.diverged <=> (IntervalOf(rrule) = 0 /\ ~Has(rrule, "count")))

\* the rules and the excluded rules of an item
RulesOf(item) == Get(item, "recurrenceRules") \o Get(item, "excludedRecurrenceRules")

\* some rule or excluded rule of the item has an rscale other than "gregorian"
HasUnsupportedRscale(item) ==
    /\ item["@type"] \in {"Event", "Task"}
    /\ AnchorOf(item) # Undef
    /\ \E i \in 1..Len(RulesOf(item)) :
          Has(RulesOf(item)[i], "rscale") /\ RulesOf(item)[i]["rscale"] # "gregorian"

(***************************************************************************)
(* C13. Unsupported rscale: when a recurrence rule or an excluded          *)
(* recurrence rule of an object has an rscale other than "gregorian", the  *)
(* expansion raises the 'Unsupported rscale' error and yields no           *)
(* occurrence.                                                             *)
(***************************************************************************)
UnsupportedRscaleRaised ==
    (expanded /\ \E i \in 1..Len(items) : HasUnsupportedRscale(items[i]))
        => out.error = "Unsupported rscale" /\ out.values = <<>>

\* the error is raised whenever the object has a recurrence rule of its own
UnsupportedRscaleRaisedWithRules ==
    (expanded /\ \E i \in 1..Len(items) : HasUnsupportedRscale(items[i]) /\ IsRecurring(items[i]))
        => out.error = "Unsupported rscale" /\ out.values = <<>>

\* the anchor of the item does not match the LocalDateTime grammar
HasMalformedAnchor(item) ==
    /\ item["@type"] \in {"Event", "Task"}
    /\ AnchorOf(item) # Undef
    /\ ~MatchesLocalDateTime(AnchorOf(item))

(***************************************************************************)
(* C14. Malformed anchor: expanding an Event or Task whose anchor does not *)
(* match the LocalDateTime grammar fails with an error and yields nothing, *)
(* with or without recurrence rules and with or without a time zone.       *)
(***************************************************************************)
MalformedAnchorFails ==
    (expanded /\ \E i \in 1..Len(items) : HasMalformedAnchor(items[i]))
        => out.error # NoError /\ out.values = <<>>

\* the expansion does fail when the object has a recurrence rule or a time zone
MalformedAnchorFailsWhenParsed ==
    (expanded /\ \E i \in 1..Len(items) :
                    /\ HasMalformedAnchor(items[i])
                    /\ (IsRecurring(items[i]) \/ ZoneOf(items[i]) # Null))
        => out.error = "Invalid LocalDateTime" /\ out.values = <<>>

(***************************************************************************)
(* C17. Idempotent normalization: normalizeRule applied to a rule that     *)
(* normalizeRule returned, with the same anchor, returns that rule         *)
(* unchanged, for every rule of every frequency and every anchor.          *)
(***************************************************************************)
NormalizeIdempotent == normalizations = 2 => renormal = normal

\* a rule that the first call changed: a yearly rule with byWeekNo only, which
\* gains the weekday of the anchor, normalized twice
NormalizeIdempotentWitness ==
    /\ normalizations = 2
    /\ rrule["frequency"] = "yearly"
    /\ Has(rrule, "byWeekNo") /\ ~Has(rrule, "byDay")
    /\ normal["byDay"] = <<NDay(dayOfWeek(parseLocalDateTime(dtstart)))>>
    /\ normal # Copied(rrule)
    /\ renormal = normal

(***************************************************************************)
(* C15. Skip remediation: for a monthly or yearly rule with byMonthDay = d *)
(* and a month that has fewer than d days, skip=forward produces day 1 of  *)
(* the following month, skip=backward produces the last day of that month, *)
(* and skip=omit (the default) produces nothing for that month; a date     *)
(* reached both directly and by remediation is produced once.              *)
(***************************************************************************)

\* the rule selects dates by byMonthDay, with byMonth at most
ByMonthDayOnly(rule) ==
    /\ rule["frequency"] \in {"monthly", "yearly"}
    /\ Has(rule, "byMonthDay")
    /\ ~Has(rule, "byDay") /\ ~Has(rule, "byWeekNo") /\ ~Has(rule, "byYearDay")
    /\ ~Has(rule, "bySetPosition")

\* the months of the period at periodStart that the normalized rule n takes
MonthsOf(n, periodStart) ==
    IF n["frequency"] = "monthly" /\ IsEmptyList(n["byMonth"]) THEN {periodStart.month}
    ELSE IF n["frequency"] = "monthly" THEN {periodStart.month} \cap MonthNumbers(n["byMonth"])
    ELSE MonthNumbers(n["byMonth"])

\* the day of a month of length days that the entry d names
NamedDay(d, days) == IF d > 0 THEN d ELSE days + d + 1

\* where the policy sends a day a month does not have
Remedy(year, month, skip) ==
    IF skip = "forward"
    THEN (IF month = 12 THEN <<year + 1, 1, 1>> ELSE <<year, month + 1, 1>>)
    ELSE <<year, month, daysInMonth(year, month)>>

\* the dates the entries name in the months, and the remedies of the entries
\* beyond the end of a month
ExpectedDates(year, months, byMonthDay, skip) ==
    {<<year, m, NamedDay(byMonthDay[i], daysInMonth(year, m))>> :
        <<m, i>> \in {<<m, i>> \in months \X (1..Len(byMonthDay)) :
                        /\ NamedDay(byMonthDay[i], daysInMonth(year, m)) >= 1
                        /\ NamedDay(byMonthDay[i], daysInMonth(year, m)) <= daysInMonth(year, m)}}
    \cup {Remedy(year, m, skip) :
            m \in {m \in months : /\ skip # "omit"
                                  /\ \E i \in 1..Len(byMonthDay) : byMonthDay[i] > daysInMonth(year, m)}}

\* the occurrences of the run have pairwise different recurrence ids
OccurrencesOnce ==
    \A i, j \in 1..Len(expansion.values) :
        expansion.values[i]["recurrenceId"] = expansion.values[j]["recurrenceId"] => i = j

SkipRemedies ==
    /\ (periods > 0 /\ ByMonthDayOnly(rrule))
        => /\ {<<periodDates[i].year, periodDates[i].month, periodDates[i].day>> : i \in 1..Len(periodDates)}
                = ExpectedDates(periodAt.year, MonthsOf(normal, periodAt), normal["byMonthDay"], SkipOf(normal))
           /\ \A i, j \in 1..Len(periodDates) :
                DateKey(periodDates[i]) = DateKey(periodDates[j]) => i = j
    /\ (ran /\ ByMonthDayOnly(rrule) /\ expansion.error = NoError) => OccurrencesOnce

\* the year 2026 of the yearly rule on days 1 and 30 of February, March and
\* April with skip forward: 30 February goes to 1 March, which day 1 names too
SkipRemediesWitness ==
    /\ periods = 1 /\ ran
    /\ rrule["frequency"] = "yearly" /\ Has(rrule, "skip") /\ rrule["skip"] = "forward"
    /\ normal["byMonthDay"] = <<1, 30>>
    /\ periodAt.year = 2026
    /\ [i \in 1..Len(periodDates) |-> <<periodDates[i].month, periodDates[i].day>>]
            = <<<<2, 1>>, <<3, 1>>, <<3, 30>>, <<4, 1>>, <<4, 30>>>>
    /\ Len(expansion.values) > 0

(***************************************************************************)
(* C16. BYSETPOS selection: with bySetPosition, each period contributes    *)
(* exactly the instants standing at the listed positions of the period's   *)
(* full ascending instant set (the filtered dates crossed with byHour,     *)
(* byMinute and bySecond): n > 0 selects the n-th earliest, n < 0 the      *)
(* |n|-th latest, and a position beyond the size of the set selects        *)
(* nothing.                                                                *)
(***************************************************************************)

\* the 1-based place from the start that position pos names among size instants
PlaceOf(pos, size) == IF pos > 0 THEN pos ELSE size + pos + 1

\* x stands at the given place of the ascending arrangement of all
StandsAt(x, place, all) ==
    /\ Cardinality({j \in 1..Len(all) : StrLess(all[j], x)}) < place
    /\ place <= Cardinality({j \in 1..Len(all) : StrLeq(all[j], x)})

\* the instants of all that stand at one of the positions of setPos
AtPositions(all, setPos) ==
    {x \in SeqToSet(all) : \E k \in 1..Len(setPos) : StandsAt(x, PlaceOf(setPos[k], Len(all)), all)}

SetPosSelects ==
    (periods > 0 /\ ~IsEmptyList(normal["bySetPosition"]))
        => /\ SeqToSet(periodInstants)
                = AtPositions(generateDateTimes(periodAt, normal, FirstDayOf(normal), SkipOf(normal)),
                              normal["bySetPosition"])
           /\ Len(periodInstants) <= Len(normal["bySetPosition"])

\* the second period of the monthly Monday and Tuesday rule at 9 and 17 hours
\* with positions 3 and -1: the third instant is the second date at 9 hours,
\* the last one the last date at 17 hours
SetPosSelectsWitness ==
    /\ periods = 2
    /\ rrule["frequency"] = "monthly"
    /\ Has(rrule, "bySetPosition") /\ normal["bySetPosition"] = <<3, -1>>
    /\ Len(generateDateTimes(periodAt, normal, FirstDayOf(normal), SkipOf(normal))) > 3
    /\ Len(periodInstants) = 2
    /\ periodInstants[1] = SortStrings(generateDateTimes(periodAt, normal, FirstDayOf(normal), SkipOf(normal)))[3]
    /\ parseLocalDateTime(periodInstants[1]).hour = 9
    /\ parseLocalDateTime(periodInstants[2]).hour = 17
    /\ \A j \in 1..Len(periodDates) : StrLeq(DateKey(periodDates[j]), DateKey(parseLocalDateTime(periodInstants[2])))

(***************************************************************************)
(* C18. Occurrence shape: every occurrence materialized from a key (a rule *)
(* instant, the anchor of an object with rules, or an override key) has    *)
(* recurrenceId equal to that key, has recurrenceIdTimeZone equal to the   *)
(* time zone of the object when the object has one, and carries none of    *)
(* recurrenceRules, excludedRecurrenceRules and recurrenceOverrides.       *)
(***************************************************************************)

\* the keys an occurrence of the object may be materialized from
KeysOfObject(o) ==
    UNION {InstantsOf(o, o["recurrenceRules"][i]) : i \in 1..Len(o["recurrenceRules"])}
    \cup (IF IsRecurring(o) THEN {AnchorOf(o)} ELSE {})
    \cup {o["recurrenceOverrides"][i].key : i \in 1..Len(o["recurrenceOverrides"])}

\* the value was built for a key: every value of an object with rules, and of
\* an object without rules every value but the object itself
Materialized(o, value) == IsOccurrence(o) /\ (IsRecurring(o) \/ value # o)

OccurrenceShape ==
    (Expanded /\ Len(items) = 1) =>
        \A i \in 1..Len(out.values) :
            Materialized(items[1], out.values[i]) =>
                /\ Get(out.values[i], "recurrenceId") \in KeysOfObject(items[1])
                /\ ZoneOf(items[1]) # Null =>
                      /\ Has(out.values[i], "recurrenceIdTimeZone")
                      /\ out.values[i]["recurrenceIdTimeZone"] = ZoneOf(items[1])
                /\ DOMAIN out.values[i] \cap RecurrenceProperties = {}

\* the weekly event in Tokyo with an override on Saturday 7 February: the
\* override key and a later rule instant are both materialized
OccurrenceShapeWitness ==
    /\ Expanded /\ Len(items) = 1 /\ IsRecurring(items[1])
    /\ ZoneOf(items[1]) = "Asia/Tokyo"
    /\ items[1]["recurrenceOverrides"] # <<>>
    /\ items[1]["recurrenceOverrides"][1].key = <<2026, 2, 7, 10, 30, 0>>
    /\ Len(out.values) >= 2
    /\ out.values[1]["recurrenceId"] = <<2026, 2, 7, 10, 30, 0>>
    /\ out.values[1]["recurrenceIdTimeZone"] = "Asia/Tokyo"
    /\ out.values[1]["title"] # items[1]["title"]
    /\ out.values[2]["recurrenceId"] = <<2026, 2, 11, 10, 30, 0>>
    /\ out.values[2]["title"] = items[1]["title"]
    /\ ~Has(out.values[1], "recurrenceOverrides")

(***************************************************************************)
(* C19. Override isolation: an override patch for key k changes only the   *)
(* occurrence whose recurrenceId is k; every other occurrence of the same  *)
(* object carries the field values of the base object, and expansion       *)
(* leaves the input object (its fields and its recurrenceOverrides)        *)
(* unchanged, because the patch is applied to a deep copy of the base.     *)
(***************************************************************************)

\* the values the override of the object for the key sets, by property; no
\* property when the object has no override for the key
PatchedFields(o, key) ==
    {<<OverridePatch(o["recurrenceOverrides"], key)[j].pointer[1],
       ValueOf(OverridePatch(o["recurrenceOverrides"], key)[j].value)>> :
        j \in 1..Len(OverridePatch(o["recurrenceOverrides"], key))}

\* the property that holds the anchor of the occurrence: start, or due for a
\* task that has no start once its override is applied
AnchorField(value) ==
    IF value["@type"] = "Event" \/ Get(value, "start") # Undef THEN "start" ELSE "due"

\* the occurrence holds what the override of its key sets, its key as its
\* anchor, and the value of the base object in every other property
CarriesBase(o, value) ==
    /\ DOMAIN o \ RecurrenceProperties \subseteq DOMAIN value
    /\ \A f \in DOMAIN value \ {"recurrenceId", "recurrenceIdTimeZone"} :
          IF \E p \in PatchedFields(o, value["recurrenceId"]) : p[1] = f
          THEN <<f, value[f]>> \in PatchedFields(o, value["recurrenceId"])
          ELSE IF f = AnchorField(value) THEN value[f] = value["recurrenceId"]
          ELSE f \in DOMAIN o /\ value[f] = o[f]

OverrideOnlyAtKey ==
    (Expanded /\ Len(items) = 1) =>
        \A i \in 1..Len(out.values) :
            Materialized(items[1], out.values[i]) => CarriesBase(items[1], out.values[i])

OverrideIsolated == []OverrideOnlyAtKey /\ [][items' = items]_vars

\* the weekly event with an override of the title on 11 February: that
\* occurrence has the new title, the one a week later the title of the event,
\* and the event is as it was
OverrideIsolatedWitness ==
    /\ Expanded /\ Len(items) = 1 /\ IsRecurring(items[1])
    /\ items[1]["title"] = "Weekly"
    /\ items[1]["recurrenceOverrides"] # <<>>
    /\ items[1]["recurrenceOverrides"][1] = Override(<<2026, 2, 11, 10, 30, 0>>, SetTitle)
    /\ \E i \in 1..Len(out.values) :
          /\ i < Len(out.values)
          /\ out.values[i]["recurrenceId"] = <<2026, 2, 11, 10, 30, 0>>
          /\ out.values[i]["title"] = "Override"
          /\ out.values[i + 1]["recurrenceId"] = <<2026, 2, 18, 10, 30, 0>>
          /\ out.values[i + 1]["title"] = "Weekly"

(***************************************************************************)
(* C20. Override after exclusion: exclusion rules subtract only from the   *)
(* instants of the include rules, and override keys are added after that   *)
(* subtraction; so an override key within the range is materialized as an  *)
(* occurrence even when an exclusion rule generates the same               *)
(* LocalDateTime.  The rule of the object has no count, so that no key is  *)
(* cut with the list.                                                      *)
(***************************************************************************)

\* the instants the exclusion rules of the object generate
ExcludedInstants(o) ==
    UNION {InstantsOf(o, o["excludedRecurrenceRules"][i]) :
              i \in 1..Len(o["excludedRecurrenceRules"])}

OverrideAfterExclusion ==
    (Expanded /\ Len(items) = 1 /\ IsRecurring(items[1])
              /\ ~Has(items[1]["recurrenceRules"][1], "count")) =>
        \A i \in 1..Len(items[1]["recurrenceOverrides"]) :
            LET key == items[1]["recurrenceOverrides"][i].key
            IN  (/\ KeyInRange(items[1], key)
                 /\ ~ExcludedByOverride(items[1], key)
                 /\ key \in ExcludedInstants(items[1]))
                => key \in RecurrenceIds

(***************************************************************************)
(* C21. Nothing before the anchor: no rule produces an instant earlier     *)
(* than the anchor of the object; candidate instants of the period of the  *)
(* anchor that precede the anchor are skipped, are not emitted even when   *)
(* they lie in the range, and do not count against count.                  *)
(***************************************************************************)
NothingBeforeAnchor ==
    ran => \A i \in 1..Len(ruleResults) : StrLeq(dtstart, ruleResults[i])

(***************************************************************************)
(* C22. Interval stepping on aligned periods: for a rule with interval N   *)
(* the driver visits the frequency-aligned period of the anchor and then   *)
(* every N-th period after it.  For weekly rules each visited period is    *)
(* the 7 consecutive dates starting at the week start given by             *)
(* firstDayOfWeek, so no rule occurrence falls in a week that is not a     *)
(* multiple of N weeks after the week of the anchor.                       *)
(***************************************************************************)

\* whole weeks from the week of a to the week of b, weeks starting on firstDay
WeeksBetween(a, b, firstDay) ==
    daysBetween(startOfWeek(a, firstDay), startOfWeek(b, firstDay)) \div 7

\* the dates of the period at periodStart before any filter
PeriodCandidates(periodStart, n) ==
    generateDateCandidates(periodStart, n, FirstDayOf(n), SkipOf(n))

AlignedWeeks ==
    /\ (periods > 0 /\ rrule["frequency"] = "weekly")
        => /\ Len(PeriodCandidates(periodAt, normal)) = 7
           /\ \A i \in 1..7 :
                 AsDate(PeriodCandidates(periodAt, normal)[i])
                     = AsDate(addDays(startOfWeek(periodAt, FirstDayOf(normal)), i - 1))
           /\ WeeksBetween(parseLocalDateTime(dtstart), periodAt, FirstDayOf(normal))
                 = (periods - 1) * IntervalOf(normal)
    /\ (ran /\ rrule["frequency"] = "weekly" /\ IntervalOf(rrule) > 0)
        => \A i \in 1..Len(ruleResults) :
              WeeksBetween(parseLocalDateTime(dtstart), parseLocalDateTime(ruleResults[i]),
                           FirstDayOf(rrule)) % IntervalOf(rrule) = 0

(***************************************************************************)
(* C23. Remediation before byDay: the BY* filters run in the order         *)
(* byMonth, byWeekNo, byYearDay, byMonthDay (with skip remediation),       *)
(* byDay.  When a rule has both byMonthDay and byDay and skip is forward   *)
(* or backward, an invalid month day is first moved to its remediated date *)
(* and the byDay filter is then applied to the weekday of the remediated   *)
(* date.                                                                   *)
(***************************************************************************)

\* the rule selects by byMonthDay and by plain weekdays, with a skip policy
ByMonthDayAndDay(rule) ==
    /\ rule["frequency"] \in {"monthly", "yearly"}
    /\ Has(rule, "byMonthDay") /\ Has(rule, "byDay")
    /\ \A i \in 1..Len(rule["byDay"]) : ~Has(rule["byDay"][i], "nthOfPeriod")
    /\ ~Has(rule, "byWeekNo") /\ ~Has(rule, "byYearDay") /\ ~Has(rule, "bySetPosition")
    /\ SkipOf(rule) # "omit"

\* the weekday of the date <<year, month, day>> is one of byDay
OnWeekdayOf(date, byDay) ==
    \E i \in 1..Len(byDay) :
        byDay[i]["day"] = dayOfWeek([year |-> date[1], month |-> date[2], day |-> date[3]])

RemediationBeforeByDay ==
    (periods > 0 /\ ByMonthDayAndDay(rrule))
        => {<<periodDates[i].year, periodDates[i].month, periodDates[i].day>> :
                i \in 1..Len(periodDates)}
            = {d \in ExpectedDates(periodAt.year, MonthsOf(normal, periodAt),
                                   normal["byMonthDay"], SkipOf(normal)) :
                  OnWeekdayOf(d, normal["byDay"])}

(***************************************************************************)
(* C24. Ascending processing within a period: in each period the driver    *)
(* handles the candidate instants in ascending order, also when            *)
(* bySetPosition lists its positions out of order; hence the keys returned *)
(* for one rule are in ascending order, and stopping at the first instant  *)
(* later than until never drops an instant of the same period that is not  *)
(* later than until.                                                       *)
(***************************************************************************)

\* no instant of the list is followed by an earlier one
InAscendingOrder(list) ==
    \A i \in 1..Len(list) : \A j \in 1..Len(list) : i < j => StrLeq(list[i], list[j])

\* the period at periodAt is one the driver visits: its cursor is neither
\* after until nor after the end of the window
PeriodVisited ==
    /\ ~AfterUntil(formatLocalDateTime(periodAt), normal)
    /\ compareDate(periodAt, WindowOf(rrule, dtstart).to) <= 0

\* the instant is not later than until and lies in the window
DueBeforeUntil(dt) ==
    /\ ~AfterUntil(dt, normal)
    /\ isInRange(dt, localDateTimeFromDate(WindowOf(rrule, dtstart).from),
                     localDateTimeFromDate(WindowOf(rrule, dtstart).to))

PlacesWithin(setPos, size) ==
    {k \in 1..Len(setPos) : PlaceOf(setPos[k], size) \in 1..size}

\* the i-th smallest number of the set
NthOf(set, i) == CHOOSE k \in set : Cardinality({j \in set : j < k}) = i - 1

\* handled lists one instant per position of setPos that lies within all, in
\* the order of setPos
InListedOrder(handled, all, setPos) ==
    /\ Len(handled) = Cardinality(PlacesWithin(setPos, Len(all)))
    /\ \A i \in 1..Len(handled) :
           StandsAt(handled[i],
                    PlaceOf(setPos[NthOf(PlacesWithin(setPos, Len(all)), i)], Len(all)), all)

\* every instant of the list up to place i is not later than until
BeforeFirstLate(list, i) == \A k \in 1..i : ~AfterUntil(list[k], normal)

NoDuplicateInstants ==
    (ran /\ IntervalOf(rrule) > 0)
        => /\ \A i \in 1..Len(ruleResults) : \A j \in 1..Len(ruleResults) :
                   i # j => ruleResults[i] # ruleResults[j]
           /\ (Has(rrule, "count") /\ Len(ruleResults) = rrule["count"])
                   => Cardinality(SeqToSet(ruleResults)) = rrule["count"]

(***************************************************************************)
(* C25. Implicit BY* defaults: normalizeRule fills only BY* fields that    *)
(* are absent or empty, from the anchor: bySecond for non-secondly rules,  *)
(* byMinute for rules coarser than minutely, byHour for rules coarser than *)
(* hourly, byDay = [anchor weekday] for weekly rules without byDay,        *)
(* byMonthDay = [anchor day] for monthly rules with neither byDay nor      *)
(* byMonthDay, and for yearly rules without byYearDay the three cases      *)
(* (byMonth, byMonthDay, byDay).  Every non-empty BY* list supplied by the *)
(* caller, and the input rule object itself, are left unchanged.           *)
(***************************************************************************)

\* the caller supplied a non-empty list for the BY* field
Given(rule, k) == Has(rule, k) /\ rule[k] # <<>>

\* the rule is yearly and has no byYearDay
YearlyByDate(rule) == rule["frequency"] = "yearly" /\ ~Given(rule, "byYearDay")

\* the list an absent or empty BY* field of the rule gets from the anchor
DefaultOf(rule, start, k) ==
    CASE k = "bySecond" ->
           IF rule["frequency"] # "secondly" THEN <<start.second>> ELSE <<>>
      [] k = "byMinute" ->
           IF rule["frequency"] \notin {"secondly", "minutely"} THEN <<start.minute>> ELSE <<>>
      [] k = "byHour" ->
           IF rule["frequency"] \notin {"secondly", "minutely", "hourly"}
           THEN <<start.hour>> ELSE <<>>
      [] k = "byDay" ->
           IF \/ rule["frequency"] = "weekly"
              \/ YearlyByDate(rule) /\ Given(rule, "byWeekNo") /\ ~Given(rule, "byMonthDay")
           THEN <<NDay(dayOfWeek(start))>> ELSE <<>>
      [] k = "byMonthDay" ->
           IF \/ rule["frequency"] = "monthly" /\ ~Given(rule, "byDay")
              \/ YearlyByDate(rule) /\ ~Given(rule, "byWeekNo") /\ ~Given(rule, "byDay")
           THEN <<start.day>> ELSE <<>>
      [] k = "byMonth" ->
           IF YearlyByDate(rule) /\ ~Given(rule, "byWeekNo")
              /\ (Given(rule, "byMonthDay") \/ ~Given(rule, "byDay"))
           THEN <<MonthToString(start.month)>> ELSE <<>>
      [] OTHER -> <<>>

\* the normalized rule is the rule with the defaults in its absent or empty
\* BY* fields and everything else as the caller gave it
DefaultsFilled ==
    normalizations >= 1
        => /\ DOMAIN normal = DOMAIN rrule \cup ByKeys
           /\ \A k \in ByKeys :
                  normal[k] = IF Given(rrule, k) THEN rrule[k]
                              ELSE DefaultOf(rrule, parseLocalDateTime(dtstart), k)
           /\ \A k \in DOMAIN rrule \ ByKeys : normal[k] = rrule[k]

ImplicitDefaults == []DefaultsFilled /\ [][rrule' = rrule]_vars

\* a yearly rule with byMonthDay only, normalized: it keeps its byMonthDay
\* and gains the month and the time of the anchor
ImplicitDefaultsWitness ==
    /\ normalizations >= 1
    /\ rrule["frequency"] = "yearly"
    /\ DOMAIN rrule \cap ByKeys = {"byMonthDay"}
    /\ normal["byMonthDay"] = <<1, 31>>
    /\ normal["byMonth"] = <<MonthToString(dtstart[2])>>
    /\ normal["byHour"] = <<dtstart[4]>>
    /\ normal["byDay"] = <<>>

(***************************************************************************)
(* C26. Start follows the key: an occurrence with key k has start = k      *)
(* (due = k for a task without start) unless its override patch itself     *)
(* sets start (respectively due); in that case the patched value is kept   *)
(* and recurrenceId is still k.                                            *)
(***************************************************************************)

\* the override of the object for the key sets the property
PatchSets(o, key, f) == \E p \in PatchedFields(o, key) : p[1] = f

\* the occurrence has its key in its anchor property, or there the value its
\* override sets
AnchoredAtKey(o, value) ==
    IF PatchSets(o, value["recurrenceId"], AnchorField(value))
    THEN <<AnchorField(value), value[AnchorField(value)]>>
             \in PatchedFields(o, value["recurrenceId"])
    ELSE value[AnchorField(value)] = value["recurrenceId"]

\* the object has one rule, without count, and no exclusion rule
PlainlyRecurring(o) ==
    /\ IsRecurring(o)
    /\ Len(o["recurrenceRules"]) = 1 /\ ~Has(o["recurrenceRules"][1], "count")
    /\ o["excludedRecurrenceRules"] = <<>>

StartFollowsKey ==
    (Expanded /\ Len(items) = 1) =>
        /\ \A i \in 1..Len(out.values) :
               Materialized(items[1], out.values[i]) => AnchoredAtKey(items[1], out.values[i])
        /\ PlainlyRecurring(items[1]) =>
               \A j \in 1..Len(items[1]["recurrenceOverrides"]) :
                   LET key == items[1]["recurrenceOverrides"][j].key
                   IN  (/\ KeyInRange(items[1], key)
                        /\ PatchSets(items[1], key, "start") \/ PatchSets(items[1], key, "due"))
                       => key \in RecurrenceIds

\* the task with a due date only and an override on 4 February that sets the
\* due date: that occurrence keeps the due date of the override under its
\* key, the next one is due at its key
StartFollowsKeyWitness ==
    /\ Expanded /\ Len(items) = 1 /\ IsRecurring(items[1])
    /\ items[1]["@type"] = "Task" /\ items[1]["start"] = Undef
    /\ items[1]["recurrenceOverrides"] = <<Override(<<2026, 2, 4, 9, 0, 0>>, SetDue)>>
    /\ \E i \in 1..Len(out.values) :
          /\ i < Len(out.values)
          /\ out.values[i]["recurrenceId"] = <<2026, 2, 4, 9, 0, 0>>
          /\ out.values[i]["due"] = <<2026, 2, 5, 17, 0, 0>>
          /\ out.values[i + 1]["recurrenceId"] = <<2026, 2, 11, 9, 0, 0>>
          /\ out.values[i + 1]["due"] = <<2026, 2, 11, 9, 0, 0>>

(***************************************************************************)
(* C27. Malformed until or override key: a rule whose until, or an object  *)
(* whose recurrenceOverrides key, does not match the LocalDateTime grammar *)
(* makes the expansion of that object fail fast with an error; such a      *)
(* string is never compared or emitted as if it were a valid date-time.    *)
(***************************************************************************)

\* a rule of the list has an until that is not a LocalDateTime
HasMalformedUntil(rules) ==
    \E i \in 1..Len(rules) : Has(rules[i], "until") /\ ~MatchesLocalDateTime(rules[i]["until"])

\* an override key of the object is not a LocalDateTime
HasMalformedKey(o) ==
    \E i \in 1..Len(o["recurrenceOverrides"]) :
        ~MatchesLocalDateTime(o["recurrenceOverrides"][i].key)

\* the object has a well-formed anchor and a malformed until or override key
MalformedWithin(o) ==
    /\ o["@type"] \in {"Event", "Task"}
    /\ AnchorOf(o) # Undef /\ MatchesLocalDateTime(AnchorOf(o))
    /\ \/ HasMalformedUntil(o["recurrenceRules"])
       \/ HasMalformedUntil(o["excludedRecurrenceRules"])
       \/ HasMalformedKey(o)

MalformedFailsFast ==
    (expanded /\ Len(items) = 1 /\ MalformedWithin(items[1]))
        => /\ out.error = "Invalid LocalDateTime"
           /\ out.values = <<>>

(***************************************************************************)
(* C29. Range restriction: the occurrences of an object depend on the      *)
(* range only by restriction.  For ranges R1 contained in R2, the          *)
(* occurrences expandRecurrence yields for R1 are exactly those it yields  *)
(* for R2 whose key lies in R1; count is consumed from the anchor onwards, *)
(* not from the start of the range, also when the object has override      *)
(* keys.                                                                   *)
(***************************************************************************)

\* the two ranges of the model: the narrow one lies within the wide one
WideRange   == [from |-> Date(<<2026, 2, 1, 0, 0, 0>>), to |-> Date(<<2026, 2, 28, 0, 0, 0>>)]
NarrowRange == [from |-> Date(<<2026, 2, 3, 1, 30, 0>>), to |-> Date(<<2026, 2, 10, 0, 0, 0>>)]

\* the values of the list whose key lies in the range of the state
WithinRange(item, values) ==
    SelectSeq(values, LAMBDA v : KeyInRange(item, occurrenceKey(v)))

\* what the items yield for the wide range
WideExpansion == expandRecurrence(items, WideRange)

RangeRestriction ==
    (Expanded /\ Len(items) = 1 /\ IsOccurrence(items[1]) /\ range = NarrowRange
              /\ WideExpansion.error = NoError /\ ~WideExpansion.diverged)
        => out.values = WithinRange(items[1], WideExpansion.values)

(***************************************************************************)
(* C28. ISO-style week numbers: for every valid date d and every           *)
(* firstDayOfWeek, weekNumber(d, firstDayOfWeek) is the ISO-style week     *)
(* number: weeks start on firstDayOfWeek, week 1 is the first week with at *)
(* least four days in its year, all seven days of one week get the same    *)
(* number, and totalWeeksInYear(y), used to resolve negative byWeekNo as   *)
(* total_weeks + n + 1, is the number of such weeks of year y (52 or 53).  *)
(***************************************************************************)

\* the fourth day of the week of the date; the week belongs to the year of
\* this day, the one that holds at least four of its days
FourthDayOfWeek(date, firstDay) == addDays(startOfWeek(date, firstDay), 3)

\* the number of the week of the date among the weeks of the year the week
\* belongs to
IsoStyleWeek(date, firstDay) == (dayOfYear(FourthDayOfWeek(date, firstDay)) - 1) \div 7 + 1

\* the number of weeks of the year: the number of the week of 28 December,
\* which is always the last week of its year
IsoStyleWeeksIn(year, firstDay) ==
    IsoStyleWeek([year |-> year, month |-> 12, day |-> 28, hour |-> 0, minute |-> 0,
                  second |-> 0], firstDay)

IsoStyleWeeks ==
    /\ numbered =>
          /\ weekOfDate = IsoStyleWeek(weekDate, weekFirstDay)
          /\ \A k \in 0..6 :
                 weekNumber(addDays(startOfWeek(weekDate, weekFirstDay), k), weekFirstDay)
                     = weekOfDate
    /\ counted =>
          /\ weeksOfYear = IsoStyleWeeksIn(weekDate.year, weekFirstDay)
          /\ weeksOfYear \in {52, 53}

=============================================================================
